---- MODULE Spec2Model ----
(***************************************************************************)
(* Model of disstate's event handler (package event, type Handler):       *)
(* the registration table, the global middleware table, the dispatch      *)
(* engine (Call / call / callHandlers), the guild lifecycle tracker and   *)
(* the lifecycle controller (Open / Close).                                *)
(*                                                                         *)
(* Every goroutine of the program is a record with a pc; a step of the    *)
(* model is one stretch of code between two points at which another       *)
(* goroutine can observe or change shared state (a lock acquisition, a    *)
(* WaitGroup operation, a call into user code).                           *)
(***************************************************************************)
EXTENDS Integers, Sequences, FiniteSets, TLC

\* ------------------------------------------------------------------ bounds
OrderMiddlewares == 3  \* SpecOrder: global middleware registrations
OrderCalls == 1        \* SpecOrder: dispatched events
FilterMiddlewares == 2 \* SpecFilter: global middleware registrations
FilterHandlers == 1    \* SpecFilter: handler registrations
FilterCalls == 1       \* SpecFilter: dispatched events
RemoveHandlers == 2    \* SpecRemove: handler registrations
RemoveMiddlewares == 1 \* SpecRemove: global middleware registrations
RemoveCalls == 2       \* SpecRemove: dispatched events
GuildCalls == 4        \* SpecGuild: dispatched events
LifeHandlers == 1      \* SpecLife: handler registrations
LifeCalls == 1         \* SpecLife: events, dispatched or received
LifeOpens == 1         \* SpecLife: calls of Open
LifeCloses == 1        \* SpecLife: calls of Close
ContextHandlers == 2   \* SpecContext: handler registrations
ContextCalls == 1      \* SpecContext: dispatched events
VisibleHandlers == 2   \* SpecVisible: handler registrations
VisibleMiddlewares == 2 \* SpecVisible: global middleware registrations
VisibleCalls == 1      \* SpecVisible: dispatched events
IsolationHandlers == 2 \* SpecIsolation: handler registrations
PanicMiddlewares == 2  \* SpecPanic: global middleware registrations
PanicHandlers == 1     \* SpecPanic: handler registrations
PanicCalls == 1        \* SpecPanic: received events
TrackCalls == 2        \* SpecTrack: dispatched events
DirectHandlers == 2    \* SpecDirect: handler registrations
DirectCalls == 1       \* SpecDirect: dispatched events
BarrierHandlers == 2   \* SpecBarrier: handler registrations
OnceCalls == 2         \* SpecOnce: dispatched events
DropEvents == 3        \* SpecDrop: values arriving on the channel
BlockEvents == 2       \* SpecBlock: events arriving on the channel
ChanEvents == 2        \* SpecChan: events arriving on the channel
SituationalCalls == 2  \* SpecSituational: dispatched events
ChainMiddlewares == 2  \* SpecChain: per-handler middlewares of a handler
ChainCalls == 2        \* SpecChain: dispatched events
ArrivalEvents == 2     \* SpecArrival: events arriving on the channel
AtomicSetup == 2       \* SpecAtomic: events dispatched before the GuildCreates
LegacyAdds == 3        \* SpecLegacy: calls of AddGlobalMiddleware
LegacyCalls == 2       \* SpecLegacy: dispatched events
CacheEvents == 3       \* SpecCache: events arriving on the channel
ShutdownEvents == 1    \* SpecShutdown: events arriving on the channel
FrameCalls == 1        \* SpecFrame: dispatched events
MaxIn == 3             \* SpecTry: parameters of a func value
MaxOut == 2            \* SpecTry: results of a func value
MaxGuilds == 1         \* guild ids

\* ------------------------------------------------------------------- types
interfaceType == "interface{}"
baseType == "*Base"

\* the wrapped gateway events the model dispatches
RawTypes == {"Ready", "GuildCreate", "GuildDelete", "MessageCreate"}
\* the situation-specific guild events of custom_events.go
GuildCreateTypes == {"GuildReady", "GuildAvailable", "GuildJoin"}
GuildDeleteTypes == {"GuildUnavailable", "GuildLeave"}
SituationalTypes == GuildCreateTypes \cup GuildDeleteTypes
EventTypes == RawTypes \cup SituationalTypes

\* the type of the gateway package that the event type t wraps: what the
\* constructor of gateway.EventCreator returns for the event
GatewayType(t) == "gateway." \o t \o "Event"

\* what a handler's or middleware's second parameter can be: addHandler
\* accepts every type
ParamTypes ==
    {interfaceType, baseType} \cup EventTypes
      \cup {GatewayType(t) : t \in EventTypes}

GuildIDs == 1..MaxGuilds

\* reflect.Type of a handler func: func(*State, t).  It is a type of its own,
\* different from every event type.
FuncType(t) == "func(*State, " \o t \o ")"

\* eventIntents[t], as a set of intent bits (| is set union).  init fills
\* the map from gateway.EventIntents under reflect.TypeOf(constructor()), the
\* types of the gateway package; every other type is a missing key and reads
\* as 0.
eventIntents(t) ==
    CASE t \in {GatewayType("GuildCreate"), GatewayType("GuildDelete")} ->
           {"Guilds"}
      [] t = GatewayType("MessageCreate") -> {"GuildMessages", "DirectMessages"}
      [] OTHER -> {}

\* what a call into user code (a middleware or a handler func) can do: return
\* without a result (a func without error result), return nil, Filtered or
\* another error, or panic
Filtered == "filtered"
Outcomes == {"void", "nil", Filtered, "error", "panic"}

\* --------------------------------------------------------------- variables
VARIABLES
    handlers,           \* h.handlers: type -> sequence of handler ids
    metas,              \* the handlerMeta of every handler id, with the
                        \* state of its sync.Once values
    globalMiddlewares,  \* h.globalMiddlewares: type -> sequence of
                        \* [serial |-> n]
    currentSerial,      \* h.currentSerial
    calls,              \* one record per invocation of Handler.Call; its
                        \* fields invoked, errors, panics, prior,
                        \* serialAtCapture, filteredAt, erroredAt,
                        \* panickedAt and context are history
    units,              \* one record per goroutine of callHandlers; its
                        \* fields ran, seen and result are history
    bases,              \* the heap of *Base values: address -> set of keys;
                        \* -i is the Base made for call i, u the Base
                        \* copyEvent made in handler goroutine u
    unreadyGuilds,      \* h.unreadyGuilds
    unavailableGuilds,  \* h.unavailableGuilds
    lastTransition,     \* history: the last raw guild event seen per guild
    handlerWG,          \* counter of h.handlerWG
    closer,             \* h.closer: 0 (nil) or the id of a channel
    closedChans,        \* the closer channels that were closed
    loops,              \* one record per goroutine started by Open
                        \* its field received is history
    closes,             \* one record per invocation of Close
    attempts,           \* history: one record per call of TryAddHandler,
                        \* TryAddHandlerOnce or TryAddMiddleware with an
                        \* arbitrary value, and what the call did
    store,              \* the store of the state: the ids of the cached
                        \* guilds; its field applied, the number of events
                        \* the store was updated with, is history
    manager             \* the State as manager of the gateways: its mutex
                        \* (writer, readers), rescaleExec, and one record
                        \* per goroutine that is in one of its methods

regVars == <<handlers, metas, globalMiddlewares, currentSerial>>
guildVars == <<unreadyGuilds, unavailableGuilds, lastTransition>>
lifeVars == <<closer, closedChans, loops, closes>>
vars == <<handlers, metas, globalMiddlewares, currentSerial, calls, units,
          bases, unreadyGuilds, unavailableGuilds, lastTransition, handlerWG,
          closer, closedChans, loops, closes, attempts, store, manager>>

\* ----------------------------------------------------------------- helpers
\* m[k] of a Go map: the zero value (an empty slice) for a missing key
Lookup(m, k) == IF k \in DOMAIN m THEN m[k] ELSE <<>>

\* m[k] = v of a Go map: creates the key
Store(m, k, v) == [x \in DOMAIN m \cup {k} |-> IF x = k THEN v ELSE m[x]]

\* append(s[:i], s[i+1:]...), with i counted from 1
RemoveAt(s, i) == [j \in 1..(Len(s) - 1) |-> IF j < i THEN s[j] ELSE s[j + 1]]

Range(s) == {s[i] : i \in DOMAIN s}

\* NewHandler
Init ==
    /\ handlers = <<>>
    /\ metas = <<>>
    /\ globalMiddlewares = <<>>
    /\ currentSerial = 0
    /\ calls = <<>>
    /\ units = <<>>
    /\ bases = <<>>
    /\ unreadyGuilds = {}
    /\ unavailableGuilds = {}
    /\ lastTransition = [g \in GuildIDs |-> "none"]
    /\ handlerWG = 0
    /\ closer = 0
    /\ closedChans = {}
    /\ loops = <<>>
    /\ closes = <<>>
    /\ attempts = <<>>
    /\ store = [guilds |-> {}, applied |-> 0]
    /\ manager = [writer |-> 0, readers |-> {}, rescaleExec |-> 0,
                  procs |-> <<>>]

\* ------------------------------------------------------------ registration
\* addHandler with a valid handler func for event type t, execOnce = once and
\* n valid per-handler middlewares; the handler's id is its index in metas
AddHandler(t, once, n) ==
    /\ metas' = Append(metas, [eventType |-> t, handlerType |-> FuncType(t),
                               execOnce |-> once, onceDone |-> FALSE,
                               rmDone |-> FALSE, middlewares |-> n])
    /\ handlers' = Store(handlers, t, Append(Lookup(handlers, t), Len(metas) + 1))
    /\ UNCHANGED <<globalMiddlewares, currentSerial, calls, units, bases,
                   guildVars, attempts, handlerWG, lifeVars, store, manager>>

\* the body of rm's once.Do for handler id: the list is looked up under the
\* handler's own type, handlerType
RemoveHandler(id) ==
    LET handler == Lookup(handlers, metas[id].handlerType)
        hits == {i \in DOMAIN handler : handler[i] = id}
    IN IF hits = {} THEN handlers
       ELSE LET i == CHOOSE j \in hits : \A k \in hits : j <= k
            IN Store(handlers, metas[id].handlerType, RemoveAt(handler, i))

\* the removal function rm returned by addHandler, called by the user
Rm(id) ==
    /\ id \in DOMAIN metas
    /\ IF metas[id].rmDone
         THEN UNCHANGED <<handlers, metas, store, manager>>
         ELSE /\ handlers' = RemoveHandler(id)
              /\ metas' = [metas EXCEPT ![id].rmDone = TRUE]
    /\ UNCHANGED <<globalMiddlewares, currentSerial, calls, units, bases,
                   guildVars, attempts, handlerWG, lifeVars, store, manager>>

\* TryAddMiddleware with a valid middleware func for type t
TryAddMiddleware(t) ==
    /\ globalMiddlewares' =
         Store(globalMiddlewares, t,
               Append(Lookup(globalMiddlewares, t), [serial |-> currentSerial]))
    /\ currentSerial' = currentSerial + 1
    /\ UNCHANGED <<handlers, metas, calls, units, bases, guildVars, attempts,
                   handlerWG, lifeVars, store, manager>>

\* DeriveIntents
DeriveIntents ==
    UNION {eventIntents(t) : t \in DOMAIN globalMiddlewares}
      \cup UNION {eventIntents(t) : t \in DOMAIN handlers}

\* ------------------------------------------------------------ Handler.Call
\* the state of one invocation of Call(e); e carries a fresh Base
NewCall(t, g, unavailable, gs, l) ==
    [et |-> t, guild |-> g, unavailable |-> unavailable, guilds |-> gs,
     src |-> IF l = 0 THEN "manual" ELSE "transport", loop |-> l,
     pc |-> "capture",
     interfaceMiddlewares |-> <<>>, baseMiddlewares |-> <<>>,
     typedMiddlewares |-> <<>>, im |-> 0, bm |-> 0, tm |-> 0,
     abort |-> FALSE, invoked |-> <<>>, errors |-> 0, panics |-> 0,
     base |-> -(Len(calls) + 1), specific |-> "none", prior |-> "none",
     serialAtCapture |-> 0, filteredAt |-> -1, erroredAt |-> -1,
     panickedAt |-> -1, context |-> {}, old |-> 0, lookupAt |-> -1,
     seq |-> 0]

\* ---- registration of arbitrary values
\* h.rstate.Type() and errorType
StateType == "*State"
errorType == "error"
ErrInvalidHandler == "ErrInvalidHandler"
ErrInvalidMiddleware == "ErrInvalidMiddleware"

\* the sequences over S of length at most n
SeqsUpTo(S, n) == UNION {[1..k -> S] : k \in 0..n}

\* the values handed to the Try functions, by what reflect tells of them: the
\* nil interface, a value that is neither func nor chan, a chan of events,
\* unbuffered or with a buffer of one, and funcs with their parameter and
\* result types
Values ==
    {[kind |-> "nil"], [kind |-> "int"]}
      \cup {[kind |-> "chan", elem |-> "MessageCreate", cap |-> c] : c \in 0..1}
      \cup {[kind |-> "func", in |-> i, out |-> o] :
              i \in SeqsUpTo({StateType, "MessageCreate"}, MaxIn),
              o \in SeqsUpTo({errorType, "int"}, MaxOut)}

\* the checks of NumIn, In(0), NumOut and Out(0) common to addHandler,
\* extractMiddlewares and TryAddMiddleware, for a func
SignatureOK(v) ==
    /\ Len(v.in) = 2 /\ v.in[1] = StateType
    /\ Len(v.out) = 0 \/ (Len(v.out) = 1 /\ v.out[1] = errorType)

\* extractMiddlewares for one middleware m of a handler for eventType:
\* reflect.ValueOf(m).Type() panics for the nil interface
MiddlewareResult(m, eventType) ==
    IF m.kind = "nil" THEN "panic"
    ELSE IF m.kind # "func" THEN ErrInvalidMiddleware
    ELSE IF ~SignatureOK(m) THEN ErrInvalidMiddleware
    ELSE IF m.in[2] \in {interfaceType, baseType, eventType} THEN "ok"
    ELSE ErrInvalidMiddleware

\* extractMiddlewares: the first middleware that is not accepted decides
RECURSIVE ExtractMiddlewares(_, _)
ExtractMiddlewares(raw, eventType) ==
    IF raw = <<>> THEN "ok"
    ELSE IF MiddlewareResult(Head(raw), eventType) # "ok"
      THEN MiddlewareResult(Head(raw), eventType)
      ELSE ExtractMiddlewares(Tail(raw), eventType)

\* the event type addHandler takes from the handler
HandlerEventType(v) == IF v.kind = "chan" THEN v.elem ELSE v.in[2]

\* addHandler up to the registration: handlerVal.Type() panics for the nil
\* interface
AddHandlerResult(v, raw) ==
    IF v.kind = "nil" THEN "panic"
    ELSE IF v.kind \notin {"chan", "func"} THEN ErrInvalidHandler
    ELSE IF v.kind = "func" /\ ~SignatureOK(v) THEN ErrInvalidHandler
    ELSE ExtractMiddlewares(raw, HandlerEventType(v))

\* TryAddMiddleware up to the registration: fv.Type() panics for the nil
\* interface and ft.NumIn() for a type that is no func
TryAddMiddlewareResult(v) ==
    IF v.kind # "func" THEN "panic"
    ELSE IF ~SignatureOK(v) THEN ErrInvalidMiddleware
    ELSE "ok"

\* the type of the handler value, as handlerType
ValueType(v) ==
    IF v.kind = "chan" THEN "chan *" \o v.elem ELSE FuncType(v.in[2])

\* a plausible slip of addHandler: the handler is appended to h.handlers
\* before its middlewares are extracted
RegistersBeforeMiddlewares(res) == res \in {"ok", ErrInvalidMiddleware}

\* whether addHandler comes to its append to h.handlers: it has returned
\* before with every error
Registers(res) == res = "ok"

\* TryAddHandler (once = FALSE) or TryAddHandlerOnce (once = TRUE) with the
\* value v and the middlewares raw
TryAddHandler(v, once, raw) ==
    LET res == AddHandlerResult(v, raw)
        t == HandlerEventType(v)
    IN /\ attempts' = Append(attempts,
              [op |-> IF once THEN "TryAddHandlerOnce" ELSE "TryAddHandler",
               value |-> v, middlewares |-> raw, result |-> res])
       /\ IF Registers(res)
            THEN /\ metas' = Append(metas,
                      IF v.kind = "chan"
                        THEN [eventType |-> t, handlerType |-> ValueType(v),
                              execOnce |-> once, onceDone |-> FALSE,
                              rmDone |-> FALSE, middlewares |-> Len(raw),
                              capacity |-> v.cap, queued |-> 0]
                        ELSE [eventType |-> t, handlerType |-> ValueType(v),
                              execOnce |-> once, onceDone |-> FALSE,
                              rmDone |-> FALSE, middlewares |-> Len(raw)])
                 /\ handlers' = Store(handlers, t,
                      Append(Lookup(handlers, t), Len(metas) + 1))
            ELSE UNCHANGED <<handlers, metas, store, manager>>
       /\ UNCHANGED <<globalMiddlewares, currentSerial, calls, units, bases,
                      guildVars, handlerWG, lifeVars, store, manager>>

\* TryAddMiddleware with the value v
TryAddMiddlewareValue(v) ==
    LET res == TryAddMiddlewareResult(v)
    IN /\ attempts' = Append(attempts,
              [op |-> "TryAddMiddleware", value |-> v, middlewares |-> <<>>,
               result |-> res])
       /\ IF res = "ok"
            THEN /\ globalMiddlewares' = Store(globalMiddlewares, v.in[2],
                      Append(Lookup(globalMiddlewares, v.in[2]),
                             [serial |-> currentSerial]))
                 /\ currentSerial' = currentSerial + 1
            ELSE UNCHANGED <<globalMiddlewares, currentSerial, store, manager>>
       /\ UNCHANGED <<handlers, metas, calls, units, bases, guildVars,
                      handlerWG, lifeVars, store, manager>>

\* the Guilds of a Ready: the guilds ids of the session, those in marked with
\* Unavailable set
Snapshot(ids, marked) == {[ID |-> g, Unavailable |-> g \in marked] : g \in ids}

\* the ids of the Guilds of a Ready
IDs(gs) == {x.ID : x \in gs}

\* the ids of the Guilds of a Ready that have Unavailable set
Marked(gs) == {x.ID : x \in {y \in gs : y.Unavailable}}

\* Call(e) invoked by the user, e of type t
Call(t, g, unavailable, gs) ==
    /\ calls' = Append(calls, NewCall(t, g, unavailable, gs, 0))
    /\ bases' = Store(bases, -(Len(calls) + 1), {})
    /\ UNCHANGED <<regVars, units, guildVars, attempts, handlerWG, lifeVars,
                   store, manager>>

\* one iteration of the loop of callGlobalMiddlewares up to the call of the
\* middleware: the merge of the three captured lists by serial.  index is
\* "nil" when all three are consumed.
\* a plausible slip of the merge: the typed list is preferred whenever it has
\* an element left, without comparing serials
NextMiddlewareTypedFirst(c) ==
    IF c.tm < Len(c.typedMiddlewares)
      THEN [index |-> "tm", serial |-> c.typedMiddlewares[c.tm + 1].serial,
            typ |-> c.et]
      ELSE IF c.im < Len(c.interfaceMiddlewares)
        THEN [index |-> "im",
              serial |-> c.interfaceMiddlewares[c.im + 1].serial, typ |-> c.et]
        ELSE IF c.bm < Len(c.baseMiddlewares)
          THEN [index |-> "bm", serial |-> c.baseMiddlewares[c.bm + 1].serial,
                typ |-> baseType]
          ELSE [index |-> "nil", serial |-> 0, typ |-> "nil"]

NextMiddleware(c) ==
    LET n0 == [index |-> "nil", serial |-> 0, typ |-> "nil"]
        n1 == IF c.im < Len(c.interfaceMiddlewares)
                THEN [index |-> "im",
                      serial |-> c.interfaceMiddlewares[c.im + 1].serial,
                      typ |-> c.et]
                ELSE n0
        n2 == IF /\ c.bm < Len(c.baseMiddlewares)
                 /\ (n1.index = "nil"
                       \/ c.baseMiddlewares[c.bm + 1].serial < n1.serial)
                THEN [index |-> "bm",
                      serial |-> c.baseMiddlewares[c.bm + 1].serial,
                      typ |-> baseType]
                ELSE n1
        n3 == IF /\ c.tm < Len(c.typedMiddlewares)
                 /\ (n2.index = "nil"
                       \/ c.typedMiddlewares[c.tm + 1].serial < n2.serial)
                THEN [index |-> "tm",
                      serial |-> c.typedMiddlewares[c.tm + 1].serial,
                      typ |-> c.et]
                ELSE n2
    IN n3

\* *index++
Advance(c, index) ==
    [c EXCEPT !.im = IF index = "im" THEN @ + 1 ELSE @,
              !.bm = IF index = "bm" THEN @ + 1 ELSE @,
              !.tm = IF index = "tm" THEN @ + 1 ELSE @]

\* where Call goes when it returns: the goroutine of Open still calls
\* handlerWG.Done()
Return(c) == IF c.src = "transport" THEN "ret" ELSE "done"

\* a plausible slip of Call: it returns at once when callGlobalMiddlewares
\* returned true
AfterMiddlewaresReturnsOnAbort(c, abort) ==
    IF abort THEN Return(c)
    ELSE IF c.et \in {"Ready", "GuildCreate", "GuildDelete"} THEN "track"
    ELSE "raw"

\* where Call goes after callGlobalMiddlewares returned abort: its type switch
AfterMiddlewares(c, abort) ==
    IF c.et \in {"Ready", "GuildCreate", "GuildDelete"} THEN "track"
    ELSE IF abort THEN Return(c) ELSE "raw"

\* a plausible slip of handleResult: the filter sentinel is taken for success
HandleResultFilteredContinues(out) ==
    [stop |-> out = "error", error |-> out = "error", panic |-> out = "nil"]

\* a plausible slip of handleResult: after ErrorHandler it returns false
HandleResultErrorContinues(out) ==
    [stop |-> out = Filtered, error |-> out = "error", panic |-> out = "nil"]

\* handleResult for the result out of a func that returned: whether it returns
\* true (the chain stops), whether ErrorHandler is called, and whether it
\* panics: res[0].Interface() of a nil error is the nil interface{}, on which
\* the type assertion .(error) panics
HandleResult(out) ==
    [stop |-> out \in {Filtered, "error"}, error |-> out = "error",
     panic |-> out = "nil"]

\* whether the goroutine that calls the func panics: in the func, or in
\* handleResult
Panics(out) == out = "panic" \/ HandleResult(out).panic

\* whether a call into user code ends its chain
Stops(out) == Panics(out) \/ HandleResult(out).stop

\* whether ErrorHandler is called for it
Errors(out) == ~Panics(out) /\ HandleResult(out).error

\* a plausible slip of callGlobalMiddlewares: no deferred recover around the
\* call of the middleware
EscapesUnrecovered(out) == Panics(out)

\* whether the panic leaves callGlobalMiddlewares: only the call of the
\* middleware is inside the func with the deferred recover, handleResult is
\* called after it
Escapes(out) == out # "panic" /\ HandleResult(out).panic

\* the head of callGlobalMiddlewares: the three lists are read under RLock
CaptureMiddlewares(i) ==
    /\ i \in DOMAIN calls
    /\ calls[i].pc = "capture"
    /\ LET c == [calls[i] EXCEPT
                   !.interfaceMiddlewares = Lookup(globalMiddlewares, interfaceType),
                   !.baseMiddlewares = Lookup(globalMiddlewares, baseType),
                   !.typedMiddlewares = Lookup(globalMiddlewares, calls[i].et),
                   !.serialAtCapture = currentSerial]
       IN calls' = [calls EXCEPT ![i] =
                      [c EXCEPT !.pc = IF NextMiddleware(c).index = "nil"
                                         THEN AfterMiddlewares(c, FALSE)
                                         ELSE "mw"]]
    /\ UNCHANGED <<regVars, units, bases, guildVars, attempts, handlerWG, lifeVars,
                   store, manager>>

\* the process after an unrecovered panic in the goroutine Open started for
\* call i: every goroutine has ended where it was
CrashedCalls(cs, i) ==
    [j \in DOMAIN cs |->
       IF j # i /\ cs[j].pc # "done" THEN [cs[j] EXCEPT !.pc = "crashed"]
       ELSE cs[j]]

CrashedUnits ==
    [u \in DOMAIN units |->
       IF units[u].pc # "done" THEN [units[u] EXCEPT !.pc = "crashed"]
       ELSE units[u]]

CrashedLoops == [l \in DOMAIN loops |-> [loops[l] EXCEPT !.pc = "crashed"]]

\* one global middleware is called; it returns out (a panic of the middleware
\* is recovered and given to PanicHandler) and, when set, has stored a value
\* in the Base.  A panic of handleResult leaves Call: it reaches the caller
\* of Call, and in the goroutine of Open it ends the process.
CallGlobalMiddleware(i, out, set) ==
    /\ i \in DOMAIN calls
    /\ calls[i].pc = "mw"
    /\ LET c == calls[i]
           next == NextMiddleware(c)
           c1 == [Advance(c, next.index) EXCEPT
                    !.invoked = Append(@, next.serial),
                    !.errors = IF Errors(out) THEN @ + 1 ELSE @,
                    !.panics = IF out = "panic" THEN @ + 1 ELSE @,
                    !.filteredAt = IF out = Filtered THEN next.serial ELSE @,
                    !.erroredAt = IF out = "error" THEN next.serial ELSE @,
                    !.panickedAt = IF out = "panic" THEN next.serial ELSE @,
                    !.context = IF set THEN @ \cup {0} ELSE @,
                    !.abort = Stops(out) /\ ~Escapes(out)]
           cs == [calls EXCEPT ![i] =
                    [c1 EXCEPT !.pc =
                       IF Escapes(out) THEN "panicked"
                       ELSE IF Stops(out) THEN AfterMiddlewares(c1, TRUE)
                       ELSE IF NextMiddleware(c1).index = "nil"
                         THEN AfterMiddlewares(c1, FALSE)
                         ELSE "mw"]]
           crash == Escapes(out) /\ c.src = "transport"
       IN /\ next.index # "nil"
          /\ calls' = IF crash THEN CrashedCalls(cs, i) ELSE cs
          /\ units' = IF crash THEN CrashedUnits ELSE units
          /\ loops' = IF crash THEN CrashedLoops ELSE loops
          /\ bases' = IF set THEN [bases EXCEPT ![c.base] = @ \cup {0}]
                      ELSE bases
    /\ UNCHANGED <<regVars, guildVars, attempts, handlerWG, closer, closedChans, closes,
                   store, manager>>

\* -------------------------------------------------- guild lifecycle tracker
\* handleGuildCreate: the situational event
GuildCreateEvent(g) ==
    IF g \in unreadyGuilds THEN "GuildReady"
    ELSE IF g \in unavailableGuilds THEN "GuildAvailable"
    ELSE "GuildJoin"

\* handleGuildDelete: the situational event
GuildDeleteEvent(unavailable) ==
    IF unavailable THEN "GuildUnavailable" ELSE "GuildLeave"

\* the type switch of Call: handleReady, handleGuildCreate, handleGuildDelete
Track(i) ==
    /\ i \in DOMAIN calls
    /\ calls[i].pc = "track"
    /\ LET c == calls[i]
           g == c.guild
       IN CASE c.et = "Ready" ->
                 /\ unreadyGuilds' = unreadyGuilds \cup IDs(c.guilds)
                 /\ UNCHANGED unavailableGuilds
                 /\ lastTransition' = [x \in GuildIDs |->
                      IF x \in Marked(c.guilds) THEN "Ready"
                      ELSE lastTransition[x]]
                 /\ calls' = [calls EXCEPT ![i].pc =
                                IF c.abort THEN Return(c) ELSE "raw"]
            [] c.et = "GuildCreate" ->
                 /\ unreadyGuilds' = unreadyGuilds \ {g}
                 /\ unavailableGuilds' =
                      IF g \in unreadyGuilds THEN unavailableGuilds
                      ELSE unavailableGuilds \ {g}
                 /\ lastTransition' = [lastTransition EXCEPT ![g] = "GuildCreate"]
                 /\ calls' = [calls EXCEPT
                      ![i].specific = GuildCreateEvent(g),
                      ![i].prior = lastTransition[g],
                      ![i].pc = IF c.abort THEN Return(c) ELSE "specific"]
            [] c.et = "GuildDelete" ->
                 /\ unavailableGuilds' =
                      IF c.unavailable THEN unavailableGuilds \cup {g}
                      ELSE unavailableGuilds \ {g}
                 /\ UNCHANGED unreadyGuilds
                 /\ lastTransition' = [lastTransition EXCEPT ![g] =
                      IF c.unavailable THEN "GuildUnavailable" ELSE "GuildLeave"]
                 /\ calls' = [calls EXCEPT
                      ![i].specific = GuildDeleteEvent(c.unavailable),
                      ![i].prior = lastTransition[g],
                      ![i].pc = IF c.abort THEN Return(c) ELSE "specific"]
    /\ UNCHANGED <<regVars, units, bases, handlerWG, lifeVars, attempts,
                   store, manager>>

\* ------------------------------------------------------- call, callHandlers
\* copyEvent sets the Base of its copy through FieldByName("Base").  For the
\* situational events, whose only field is the embedded pointer to the
\* GuildCreate or GuildDelete, this is the Base field of the one raw event that
\* all copies point to.
SharesBase(t) == t \in SituationalTypes

\* the goroutines callHandlers starts for the handlers hs
NewUnits(i, t, hs) ==
    [k \in 1..Len(hs) |->
       [call |-> i, handler |-> hs[k], et |-> t, pc |-> "copy", mwi |-> 0,
        base |-> 0, ran |-> FALSE, seen |-> {}, target |-> 0,
        result |-> "none", chain |-> <<>>]]

\* a plausible slip of call: the handlers for interface{} and *Base are
\* called for every event
MatchingWithoutDirect(t, direct) ==
    Lookup(handlers, interfaceType) \o Lookup(handlers, baseType)
      \o Lookup(handlers, t)

\* the handlers call(ev, t, direct) hands to callHandlers, under one RLock
Matching(t, direct) ==
    IF direct THEN Lookup(handlers, t)
    ELSE Lookup(handlers, interfaceType) \o Lookup(handlers, baseType)
           \o Lookup(handlers, t)

\* h.call(sev, set, false) for the situational event of a GuildCreate or
\* GuildDelete
CallSpecific(i) ==
    /\ i \in DOMAIN calls
    /\ calls[i].pc = "specific"
    /\ LET hs == Matching(calls[i].specific, FALSE)
       IN /\ units' = units \o NewUnits(i, calls[i].specific, hs)
          /\ handlerWG' = handlerWG + Len(hs)
    /\ calls' = [calls EXCEPT ![i].pc = "raw"]
    /\ UNCHANGED <<regVars, bases, guildVars, attempts, lifeVars, store, manager>>

\* h.call(ev, et, direct) at the end of Call
CallRaw(i) ==
    /\ i \in DOMAIN calls
    /\ calls[i].pc = "raw"
    /\ LET hs == Matching(calls[i].et,
                          calls[i].et \in {"GuildCreate", "GuildDelete"})
       IN /\ units' = units \o NewUnits(i, calls[i].et, hs)
          /\ handlerWG' = handlerWG + Len(hs)
    /\ calls' = [calls EXCEPT ![i].pc = Return(calls[i])]
    /\ UNCHANGED <<regVars, bases, guildVars, attempts, lifeVars, store, manager>>

\* ---- callHandlers, one goroutine at a time
\* the handler goroutines call i has started with an event of type t
Started(i, t) ==
    {u \in DOMAIN units : units[u].call = i /\ units[u].et = t}

\* the event type and the handlers of the h.call that call i is in
CurrentType(i) ==
    IF calls[i].pc = "specific" THEN calls[i].specific ELSE calls[i].et

CurrentHandlers(i) ==
    IF calls[i].pc = "specific" THEN Matching(calls[i].specific, FALSE)
    ELSE Matching(calls[i].et, calls[i].et \in {"GuildCreate", "GuildDelete"})

\* h.handlerWG.Add(len(handlers)) at the head of each of the callHandlers of
\* one h.call, given where in the concatenated lists its first handler is;
\* k is the position of the handler about to be started
Added(t, direct, k) ==
    LET ni == IF direct THEN 0 ELSE Len(Lookup(handlers, interfaceType))
        nb == IF direct THEN 0 ELSE Len(Lookup(handlers, baseType))
        nt == Len(Lookup(handlers, t))
    IN (IF k = 1 /\ ni > 0 THEN ni ELSE 0)
         + (IF k = ni + 1 /\ nb > 0 THEN nb ELSE 0)
         + (IF k = ni + nb + 1 /\ nt > 0 THEN nt ELSE 0)

\* a plausible slip of callHandlers: the func is called in the loop instead
\* of started with go, so the loop goes on when the handler has returned
GoNextAfterReturn(i) ==
    \A u \in DOMAIN units : units[u].call = i => units[u].pc = "done"

\* whether the loop of callHandlers may go on to its next handler: go func
\* returns at once
GoNext(i) == TRUE

\* one iteration of the loop of callHandlers: go func(gh) for the next
\* handler of the lists of h.call
StartHandler(i) ==
    /\ i \in DOMAIN calls
    /\ calls[i].pc \in {"specific", "raw"}
    /\ GoNext(i)
    /\ LET t == CurrentType(i)
           hs == CurrentHandlers(i)
           k == Cardinality(Started(i, t)) + 1
       IN /\ k <= Len(hs)
          /\ units' = units \o NewUnits(i, t, <<hs[k]>>)
          /\ handlerWG' = handlerWG
               + Added(t, calls[i].pc = "raw"
                            /\ t \in {"GuildCreate", "GuildDelete"}, k)
    /\ UNCHANGED <<regVars, calls, bases, guildVars, attempts, lifeVars,
                   store, manager>>

\* h.call returns when the loops of its callHandlers are over
CallReturn(i) ==
    /\ i \in DOMAIN calls
    /\ calls[i].pc \in {"specific", "raw"}
    /\ GoNext(i)
    /\ Cardinality(Started(i, CurrentType(i))) = Len(CurrentHandlers(i))
    /\ calls' = [calls EXCEPT ![i].pc =
                   IF @ = "specific" THEN "raw" ELSE Return(calls[i])]
    /\ UNCHANGED <<regVars, units, bases, guildVars, attempts, handlerWG, lifeVars,
                   store, manager>>

\* h.handlerWG.Done() of the goroutine Open started for the event
CallDone(i) ==
    /\ i \in DOMAIN calls
    /\ calls[i].pc = "ret"
    /\ calls' = [calls EXCEPT ![i].pc = "done"]
    /\ handlerWG' = handlerWG - 1
    /\ UNCHANGED <<regVars, units, bases, guildVars, attempts, lifeVars,
                   store, manager>>

\* the Base a handler goroutine reaches through its copy of the event
UnitBase(u) ==
    IF SharesBase(units[u].et) THEN calls[units[u].call].base
    ELSE units[u].base

\* where a handler goroutine goes after copyEvent
AfterCopy(u) ==
    IF metas[units[u].handler].middlewares > 0 THEN "mw" ELSE "body"

\* the handler goroutines that are inside Base.Set, writing the map of the
\* Base at address b
Writers(b) ==
    {v \in DOMAIN units : units[v].pc = "setting" /\ units[v].target = b}

\* what b.copy() can read of the Base at address b: copy ranges over b.vars
\* without taking varsMut, so next to a Set of another goroutine it is a data
\* race, and any part of the map may be read
CopyOf(b) ==
    IF Writers(b) = {} THEN {bases[b]} ELSE SUBSET (bases[b] \cup Writers(b))

\* copyEvent up to b.copy(): the Base the event points to is copied
CopyEvent(u) ==
    /\ u \in DOMAIN units
    /\ units[u].pc = "copy"
    /\ \E vars_ \in CopyOf(calls[units[u].call].base) :
         bases' = Store(bases, u, vars_)
    /\ units' = [units EXCEPT
         ![u].base = u,
         ![u].pc = IF SharesBase(units[u].et) THEN "setbase" ELSE AfterCopy(u)]
    /\ UNCHANGED <<regVars, calls, guildVars, attempts, handlerWG, lifeVars,
                   store, manager>>

\* cp.FieldByName("Base").Set(bcpValue) of a situational event: the write goes
\* to the raw event
SetSharedBase(u) ==
    /\ u \in DOMAIN units
    /\ units[u].pc = "setbase"
    /\ calls' = [calls EXCEPT ![units[u].call].base = units[u].base]
    /\ units' = [units EXCEPT ![u].pc = AfterCopy(u)]
    /\ UNCHANGED <<regVars, bases, guildVars, attempts, handlerWG, lifeVars,
                   store, manager>>

\* a plausible slip of callHandlers: without the deferred recover a panic of
\* one goroutine ends the process, and with it every other handler goroutine
Unrecovered(out, us) ==
    IF Panics(out) THEN [v \in DOMAIN us |-> [us[v] EXCEPT !.pc = "done"]]
    ELSE us

\* the deferred recover of a handler goroutine: the handler goroutines us
\* after one of them has ended with out; a panic is given to PanicHandler
\* and reaches no other goroutine
Recover(out, us) == us

\* the handler func calls Set on the Base of its event: Set has locked varsMut
\* of the Base the event points to now
BeginSet(u) ==
    /\ u \in DOMAIN units
    /\ units[u].pc = "body"
    /\ units[u].target = 0
    /\ units' = [units EXCEPT ![u].pc = "setting", ![u].target = UnitBase(u)]
    /\ UNCHANGED <<regVars, calls, bases, guildVars, attempts, handlerWG, lifeVars,
                   store, manager>>

\* Set has written the map and returns to the handler func
EndSet(u) ==
    /\ u \in DOMAIN units
    /\ units[u].pc = "setting"
    /\ bases' = [bases EXCEPT ![units[u].target] = @ \cup {u}]
    /\ units' = [units EXCEPT ![u].pc = "body"]
    /\ UNCHANGED <<regVars, calls, guildVars, attempts, handlerWG, lifeVars,
                   store, manager>>

\* a plausible slip of callMiddlewares: the slice is walked from its end
MiddlewareAtReversed(u) ==
    metas[units[u].handler].middlewares - 1 - units[u].mwi

\* the index in gh.middlewares of the middleware that the next iteration of
\* the range loop of callMiddlewares calls
MiddlewareAt(u) == units[u].mwi

\* one per-handler middleware is called (callMiddlewares); the deferred calls
\* of the goroutine run when the chain stops
CallMiddleware(u, out, set) ==
    /\ u \in DOMAIN units
    /\ units[u].pc = "mw"
    /\ LET n == metas[units[u].handler].middlewares
           i == units[u].call
       IN /\ units' = Recover(out, [units EXCEPT
               ![u].mwi = @ + 1,
               ![u].chain = Append(@, MiddlewareAt(u)),
               ![u].result = IF Stops(out) THEN out ELSE @,
               ![u].pc = IF Stops(out) THEN "done"
                         ELSE IF units[u].mwi + 1 = n THEN "body" ELSE "mw"])
          /\ calls' = [calls EXCEPT
               ![i].errors = IF Errors(out) THEN @ + 1 ELSE @,
               ![i].panics = IF Panics(out) THEN @ + 1 ELSE @]
          /\ handlerWG' = IF Stops(out) THEN handlerWG - 1 ELSE handlerWG
    /\ bases' = IF set THEN [bases EXCEPT ![UnitBase(u)] = @ \cup {u}]
                ELSE bases
    /\ UNCHANGED <<regVars, guildVars, attempts, lifeVars, store, manager>>

\* whether gh.handler.Call accepts its arguments: callHandler hands the copy
\* of the event to every handler func, and reflect panics when that is not
\* assignable to the func's parameter, as for a func(*State, *Base)
ArgumentFits(id) == metas[id].eventType # baseType

\* a plausible slip of callHandlers: no sync.Once, the removal by gh.rm alone
\* is to keep the handler from being called again
OnceDoAlways(id) == FALSE

\* whether gh.once.Do returns without calling its func: the handler was
\* added with execOnce and its Once was used before
OnceDoSkips(id) == metas[id].execOnce /\ metas[id].onceDone

\* whether the handler is a channel: gh.handler.Type().Kind() == reflect.Chan
IsChan(id) == metas[id].handlerType = "chan *" \o metas[id].eventType

\* whether the channel of handler id can take a value at once: its buffer has
\* room
Accepts(id) == metas[id].queued < metas[id].capacity

\* a plausible slip of callHandler: Send instead of TrySend, which waits
\* until the channel takes the value
SendWaits(id) == Accepts(id)

\* whether the send of callHandler can return: TrySend does not wait
TrySendReturns(id) == TRUE

\* callHandler for a handler that is a channel, inside gh.once.Do for a
\* handler added with execOnce; the goroutine ends
TrySend(u) ==
    /\ u \in DOMAIN units
    /\ units[u].pc = "body"
    /\ IsChan(units[u].handler)
    /\ TrySendReturns(units[u].handler)
    /\ LET id == units[u].handler
           skip == OnceDoSkips(id)
           sent == ~skip /\ Accepts(id)
           removes == metas[id].execOnce /\ ~skip /\ ~metas[id].rmDone
       IN /\ units' = [units EXCEPT
               ![u].pc = "done",
               ![u].ran = sent,
               ![u].result = IF skip THEN @
                             ELSE IF sent THEN "sent" ELSE "dropped"]
          /\ metas' = [metas EXCEPT
               ![id].queued = IF sent THEN @ + 1 ELSE @,
               ![id].onceDone = IF metas[id].execOnce THEN TRUE ELSE @,
               ![id].rmDone = IF removes THEN TRUE ELSE @]
          /\ handlers' = IF removes THEN RemoveHandler(id) ELSE handlers
    /\ handlerWG' = handlerWG - 1
    /\ UNCHANGED <<globalMiddlewares, currentSerial, calls, bases, guildVars,
                   attempts, lifeVars, store, manager>>

\* a goroutine of the user receives from the channel of handler id
ChanReceive(id) ==
    /\ id \in DOMAIN metas
    /\ IsChan(id)
    /\ metas[id].queued > 0
    /\ metas' = [metas EXCEPT ![id].queued = @ - 1]
    /\ UNCHANGED <<handlers, globalMiddlewares, currentSerial, calls, units,
                   bases, guildVars, attempts, handlerWG, lifeVars, store, manager>>

\* the handler is called (callHandler), inside gh.once.Do for a handler added
\* with execOnce, which then calls gh.rm; the goroutine ends.  out is what
\* the body of the handler does when it is entered.
CallHandler(u, out_, set_) ==
    /\ u \in DOMAIN units
    /\ units[u].pc = "body"
    /\ ~IsChan(units[u].handler)
    /\ LET id == units[u].handler
           i == units[u].call
           skip == OnceDoSkips(id)
           entered == ~skip /\ ArgumentFits(id)
           out == IF ArgumentFits(id) THEN out_ ELSE "panic"
           set == set_ /\ entered
           removes == metas[id].execOnce /\ ~skip /\ ~Panics(out)
                        /\ ~metas[id].rmDone
       IN /\ units' = Recover(out, [units EXCEPT
               ![u].pc = "done",
               ![u].ran = entered,
               ![u].result = IF skip THEN @ ELSE out,
               ![u].seen = IF entered THEN bases[UnitBase(u)] ELSE @])
          /\ calls' = [calls EXCEPT
               ![i].errors = IF ~skip /\ Errors(out) THEN @ + 1 ELSE @,
               ![i].panics = IF ~skip /\ Panics(out) THEN @ + 1 ELSE @]
          /\ bases' = IF set /\ ~skip
                        THEN [bases EXCEPT ![UnitBase(u)] = @ \cup {u}]
                        ELSE bases
          /\ metas' = [metas EXCEPT
               ![id].onceDone = IF metas[id].execOnce THEN TRUE ELSE @,
               ![id].rmDone = IF removes THEN TRUE ELSE @]
          /\ handlers' = IF removes THEN RemoveHandler(id) ELSE handlers
    /\ handlerWG' = handlerWG - 1
    /\ UNCHANGED <<globalMiddlewares, currentSerial, guildVars, attempts, lifeVars,
                   store, manager>>

\* ---- funcs of the user that never return
\* next.middleware.Call of callGlobalMiddlewares does not return
GlobalMiddlewareBlocks(i) ==
    /\ i \in DOMAIN calls
    /\ calls[i].pc = "mw"
    /\ NextMiddleware(calls[i]).index # "nil"
    /\ calls' = [calls EXCEPT
         ![i].pc = "blocked",
         ![i].invoked = Append(@, NextMiddleware(calls[i]).serial)]
    /\ UNCHANGED <<regVars, units, bases, guildVars, attempts, handlerWG,
                   lifeVars, store, manager>>

\* m.Call of callMiddlewares does not return
MiddlewareBlocks(u) ==
    /\ u \in DOMAIN units
    /\ units[u].pc = "mw"
    /\ units' = [units EXCEPT ![u].pc = "blocked", ![u].mwi = @ + 1,
                              ![u].chain = Append(@, MiddlewareAt(u))]
    /\ UNCHANGED <<regVars, calls, bases, guildVars, attempts, handlerWG,
                   lifeVars, store, manager>>

\* gh.handler.Call of callHandler does not return
HandlerBlocks(u) ==
    /\ u \in DOMAIN units
    /\ units[u].pc = "body"
    /\ ~IsChan(units[u].handler)
    /\ ~OnceDoSkips(units[u].handler)
    /\ ArgumentFits(units[u].handler)
    /\ units' = [units EXCEPT ![u].pc = "blocked", ![u].ran = TRUE]
    /\ UNCHANGED <<regVars, calls, bases, guildVars, attempts, handlerWG,
                   lifeVars, store, manager>>

\* ------------------------------------------------------------- Open, Close
\* Open: a new closer channel and the goroutine that listens on it
Open ==
    /\ closer' = Len(loops) + 1
    /\ loops' = Append(loops, [closer |-> Len(loops) + 1, pc |-> "select",
                               et |-> "none", guild |-> 0,
                               unavailable |-> FALSE, guilds |-> {},
                               received |-> <<>>, step |-> 1, old |-> 0,
                               lookupAt |-> -1])
    /\ UNCHANGED <<regVars, calls, units, bases, guildVars, attempts, handlerWG,
                   closedChans, closes, store, manager>>

\* the select of the loop takes case <-closer
LoopReturn(l) ==
    /\ l \in DOMAIN loops
    /\ loops[l].pc = "select"
    /\ loops[l].closer \in closedChans
    /\ loops' = [loops EXCEPT ![l].pc = "returned"]
    /\ UNCHANGED <<regVars, calls, units, bases, guildVars, attempts, handlerWG, closer,
                   closedChans, closes, store, manager>>

\* the select of the loop takes case gatewayEvent := <-events
LoopReceive(l, t, g, unavailable, gs) ==
    /\ l \in DOMAIN loops
    /\ loops[l].pc = "select"
    /\ loops' = [loops EXCEPT ![l] = [@ EXCEPT !.pc = "received", !.et = t,
                   !.guild = g, !.unavailable = unavailable, !.guilds = gs,
                   !.received = Append(@, t)]]
    /\ UNCHANGED <<regVars, calls, units, bases, guildVars, attempts, handlerWG, closer,
                   closedChans, closes, store, manager>>

\* a plausible slip of the loop: h.Call(e) is called in the loop instead of
\* in a goroutine of its own, so the loop comes to its next event when the
\* Call of the one before has returned
GoCallInline(l) ==
    \A i \in DOMAIN calls : calls[i].loop = l => calls[i].pc = "done"

\* whether the loop can start the Call of the event it has received: go
\* func() { h.Call(e); ... }() waits for nothing
GoCall(l) == TRUE

\* a plausible slip of the loop: the result of generateEvent is not tested
GeneratesAlways(t) == TRUE

\* whether generateEvent returns an event for a value of type t from the
\* channel: it returns nil for a type it has no case for
Generates(t) == t \in RawTypes

\* the rest of the case: generateEvent, handlerWG.Add(1) and the goroutine
\* that runs Call; an event generateEvent does not know is skipped
LoopDispatch(l) ==
    /\ l \in DOMAIN loops
    /\ loops[l].pc = "received"
    /\ GoCall(l)
    /\ loops' = [loops EXCEPT ![l].pc = "select"]
    /\ IF Generates(loops[l].et)
         THEN /\ handlerWG' = handlerWG + 1
              /\ calls' = Append(calls, NewCall(loops[l].et, loops[l].guild,
                                   loops[l].unavailable, loops[l].guilds, l))
              /\ bases' = Store(bases, -(Len(calls) + 1), {})
         ELSE UNCHANGED <<handlerWG, calls, bases, store, manager>>
    /\ UNCHANGED <<regVars, units, guildVars, attempts, closer, closedChans, closes,
                   store, manager>>

\* ---- the case of the loop, statement by statement, with the store
\* a plausible slip of the loop: the state is updated before the event is
\* generated
LoopOrderUpdateFirst == <<"Session.Call", "generateEvent", "go Call">>

\* the statements of case gatewayEvent := <-events in their order
LoopOrder == <<"generateEvent", "Session.Call", "go Call">>

\* the statement the loop l is at
Statement(l) ==
    IF loops[l].step \in DOMAIN LoopOrder THEN LoopOrder[loops[l].step]
    ELSE "end"

\* whether the event generateEvent makes for type t has an Old field, filled
\* from the store
HasOld(t) == t = "GuildDelete"

\* the store after the state was updated with the event of loop l
UpdateStore(l) ==
    [guilds |-> CASE loops[l].et = "GuildCreate" ->
                       store.guilds \cup {loops[l].guild}
                  [] loops[l].et = "GuildDelete" ->
                       store.guilds \ {loops[l].guild}
                  [] loops[l].et = "Ready" ->
                       store.guilds \cup IDs(loops[l].guilds)
                  [] OTHER -> store.guilds,
     applied |-> store.applied + 1]

\* e := h.generateEvent(gatewayEvent): Old is what the store holds, nil (0)
\* when it holds nothing; the error of the lookup is dropped
GenerateEvent(l) ==
    /\ l \in DOMAIN loops
    /\ loops[l].pc = "received"
    /\ Statement(l) = "generateEvent"
    /\ loops' = [loops EXCEPT ![l] =
         IF Generates(loops[l].et)
           THEN [@ EXCEPT
                   !.old = IF HasOld(loops[l].et)
                                /\ loops[l].guild \in store.guilds
                             THEN loops[l].guild ELSE 0,
                   !.lookupAt = store.applied,
                   !.step = @ + 1]
           ELSE [@ EXCEPT !.pc = "select", !.step = 1]]
    /\ UNCHANGED <<regVars, calls, units, bases, guildVars, attempts,
                   handlerWG, closer, closedChans, closes, store, manager>>

\* h.handlerWG.Add(1) and h.state.Session.Call(gatewayEvent), which returns
\* when the state has updated its store
SessionCall(l) ==
    /\ l \in DOMAIN loops
    /\ loops[l].pc = "received"
    /\ Statement(l) = "Session.Call"
    /\ handlerWG' = handlerWG + 1
    /\ store' = UpdateStore(l)
    /\ loops' = [loops EXCEPT ![l].step = @ + 1]
    /\ UNCHANGED <<regVars, calls, units, bases, guildVars, attempts, closer,
                   closedChans, closes, manager>>

\* go func() { h.Call(e); h.handlerWG.Done() }()
GoCallEvent(l) ==
    /\ l \in DOMAIN loops
    /\ loops[l].pc = "received"
    /\ Statement(l) = "go Call"
    /\ calls' = Append(calls,
         [NewCall(loops[l].et, loops[l].guild, loops[l].unavailable,
                  loops[l].guilds, l)
            EXCEPT !.old = loops[l].old, !.lookupAt = loops[l].lookupAt,
                   !.seq = Len(loops[l].received)])
    /\ bases' = Store(bases, -(Len(calls) + 1), {})
    /\ loops' = [loops EXCEPT ![l].step = @ + 1]
    /\ UNCHANGED <<regVars, units, guildVars, attempts, handlerWG, closer,
                   closedChans, closes, store, manager>>

\* the case is over: back to the select
LoopNext(l) ==
    /\ l \in DOMAIN loops
    /\ loops[l].pc = "received"
    /\ Statement(l) = "end"
    /\ loops' = [loops EXCEPT ![l].pc = "select", ![l].step = 1]
    /\ UNCHANGED <<regVars, calls, units, bases, guildVars, attempts,
                   handlerWG, closer, closedChans, closes, store, manager>>

\* the handler goroutines and Call goroutines that have not returned
Running == {u \in DOMAIN units : units[u].pc # "done"}

\* Close up to handlerWG.Wait(); without a closer it returns at once
Close ==
    /\ IF closer # 0
         THEN /\ closedChans' = closedChans \cup {closer}
              /\ closer' = 0
              /\ closes' = Append(closes, [pc |-> "wait", closed |-> closer,
                                            before |-> Running])
         ELSE /\ closes' = Append(closes, [pc |-> "returned", closed |-> 0,
                                            before |-> Running])
              /\ UNCHANGED <<closer, closedChans, store, manager>>
    /\ UNCHANGED <<regVars, calls, units, bases, guildVars, attempts, handlerWG, loops,
                   store, manager>>

\* a plausible slip of Close: it returns without handlerWG.Wait()
CloseReturnWithoutWait(k) ==
    /\ k \in DOMAIN closes
    /\ closes[k].pc = "wait"
    /\ closes' = [closes EXCEPT ![k].pc = "returned"]
    /\ UNCHANGED <<regVars, calls, units, bases, guildVars, attempts, handlerWG, closer,
                   closedChans, loops, store, manager>>

\* handlerWG.Wait() returns
CloseReturn(k) ==
    /\ k \in DOMAIN closes
    /\ closes[k].pc = "wait"
    /\ handlerWG = 0
    /\ closes' = [closes EXCEPT ![k].pc = "returned"]
    /\ UNCHANGED <<regVars, calls, units, bases, guildVars, attempts, handlerWG, closer,
                   closedChans, loops, store, manager>>

\* ----------------------------------------------------------- specifications
\* The environment of the handler: which calls of the API it makes and with
\* which arguments.  Each specification bounds the environment differently.

\* Global middlewares are registered for interface{}, *Base, the type of the
\* dispatched event and another type, in any order and at any time, and
\* events are dispatched with Call.
OrderRegTypes == {interfaceType, baseType, "MessageCreate", "GuildCreate"}

NextOrder ==
    \/ \E t \in OrderRegTypes :
         currentSerial < OrderMiddlewares /\ TryAddMiddleware(t)
    \/ Len(calls) < OrderCalls /\ Call("MessageCreate", 0, FALSE, {})
    \/ \E i \in DOMAIN calls : CaptureMiddlewares(i)
    \/ \E i \in DOMAIN calls, out \in Outcomes :
         CallGlobalMiddleware(i, out, FALSE)
    \/ \E i \in DOMAIN calls : CallRaw(i)

SpecOrder == Init /\ [][NextOrder]_vars

\* Handlers and global middlewares are registered at any time and GuildCreate
\* events are dispatched with Call by one caller, one after the other, each
\* when the handlers of the one before have returned.
Quiescent ==
    /\ \A i \in DOMAIN calls : calls[i].pc = "done"
    /\ \A u \in DOMAIN units : units[u].pc = "done"

FilterMwTypes == {interfaceType, "GuildCreate"}
FilterHandlerTypes == {interfaceType, baseType, "GuildCreate", "GuildJoin"}

NextFilter ==
    \/ \E t \in FilterMwTypes :
         currentSerial < FilterMiddlewares /\ TryAddMiddleware(t)
    \/ \E t \in FilterHandlerTypes :
         Len(metas) < FilterHandlers /\ AddHandler(t, FALSE, 0)
    \/ Len(calls) < FilterCalls /\ Quiescent
         /\ Call("GuildCreate", 1, FALSE, {})
    \/ \E i \in DOMAIN calls : CaptureMiddlewares(i)
    \/ \E i \in DOMAIN calls, out \in Outcomes :
         CallGlobalMiddleware(i, out, FALSE)
    \/ \E i \in DOMAIN calls : Track(i)
    \/ \E i \in DOMAIN calls : CallSpecific(i)
    \/ \E i \in DOMAIN calls : CallRaw(i)
    \/ \E u \in DOMAIN units : CopyEvent(u)
    \/ \E u \in DOMAIN units : SetSharedBase(u)
    \/ \E u \in DOMAIN units : CallHandler(u, "void", FALSE)

SpecFilter == Init /\ [][NextFilter]_vars

\* Handlers, with and without execOnce and with up to one per-handler
\* middleware, and global middlewares are registered, handlers are removed with
\* the function addHandler returned, and MessageCreate events are dispatched
\* with Call by one caller.
RemoveTypes == {interfaceType, "MessageCreate", GatewayType("MessageCreate")}
RemoveOutcomes == {"void", Filtered}

NextRemove ==
    \/ \E t \in RemoveTypes, once \in BOOLEAN, n \in {0, 1} :
         Len(metas) < RemoveHandlers /\ AddHandler(t, once, n)
    \/ \E id \in DOMAIN metas : ~metas[id].execOnce /\ Rm(id)
    \/ currentSerial < RemoveMiddlewares /\ TryAddMiddleware("MessageCreate")
    \/ Len(calls) < RemoveCalls /\ Quiescent
         /\ Call("MessageCreate", 0, FALSE, {})
    \/ \E i \in DOMAIN calls : CaptureMiddlewares(i)
    \/ \E i \in DOMAIN calls : CallGlobalMiddleware(i, "void", FALSE)
    \/ \E i \in DOMAIN calls : CallRaw(i)
    \/ \E u \in DOMAIN units : CopyEvent(u)
    \/ \E u \in DOMAIN units, out \in RemoveOutcomes :
         CallMiddleware(u, out, FALSE)
    \/ \E u \in DOMAIN units : CallHandler(u, "void", FALSE)

SpecRemove == Init /\ [][NextRemove]_vars

\* Ready, GuildCreate and GuildDelete events are dispatched with Call by one
\* caller, one at a time.
NextGuild ==
    \/ \E gs \in SUBSET GuildIDs :
         Len(calls) < GuildCalls /\ Quiescent
           /\ \E marked \in SUBSET gs : Call("Ready", 0, FALSE, Snapshot(gs, marked))
    \/ \E g \in GuildIDs :
         Len(calls) < GuildCalls /\ Quiescent
           /\ Call("GuildCreate", g, FALSE, {})
    \/ \E g \in GuildIDs, unavailable \in BOOLEAN :
         Len(calls) < GuildCalls /\ Quiescent
           /\ Call("GuildDelete", g, unavailable, {})
    \/ \E i \in DOMAIN calls : CaptureMiddlewares(i)
    \/ \E i \in DOMAIN calls : Track(i)
    \/ \E i \in DOMAIN calls : CallSpecific(i)
    \/ \E i \in DOMAIN calls : CallRaw(i)

SpecGuild == Init /\ [][NextGuild]_vars

\* A handler is registered, Open and Close are called by one caller, one after
\* the other, MessageCreate events arrive on the channel given to Open and are
\* dispatched with Call by the user.
Events == Len(calls) + Cardinality({l \in DOMAIN loops : loops[l].pc = "received"})

NoCloseWaiting == \A k \in DOMAIN closes : closes[k].pc = "returned"

NextLife ==
    \/ Len(metas) < LifeHandlers /\ AddHandler("MessageCreate", FALSE, 0)
    \/ Len(loops) < LifeOpens /\ NoCloseWaiting /\ Open
    \/ Len(closes) < LifeCloses /\ NoCloseWaiting /\ Close
    \/ \E k \in DOMAIN closes : CloseReturn(k)
    \/ \E l \in DOMAIN loops :
         Events < LifeCalls /\ LoopReceive(l, "MessageCreate", 0, FALSE, {})
    \/ \E l \in DOMAIN loops : LoopDispatch(l)
    \/ \E l \in DOMAIN loops : LoopReturn(l)
    \/ Events < LifeCalls /\ Call("MessageCreate", 0, FALSE, {})
    \/ \E i \in DOMAIN calls : CaptureMiddlewares(i)
    \/ \E i \in DOMAIN calls : CallRaw(i)
    \/ \E i \in DOMAIN calls : CallDone(i)
    \/ \E u \in DOMAIN units : CopyEvent(u)
    \/ \E u \in DOMAIN units : CallHandler(u, "void", FALSE)

SpecLife == Init /\ [][NextLife]_vars

\* Handlers for interface{}, GuildCreate and GuildJoin and one global
\* middleware are registered, a GuildCreate event of an unknown guild is
\* dispatched with Call, and the global middleware and the handlers may store
\* a value in the Base they are given.
ContextTypes == {interfaceType, "GuildCreate", "GuildJoin"}

NextContext ==
    \/ \E t \in ContextTypes :
         Len(metas) < ContextHandlers /\ calls = <<>> /\ AddHandler(t, FALSE, 0)
    \/ currentSerial < 1 /\ calls = <<>> /\ TryAddMiddleware(interfaceType)
    \/ Len(calls) < ContextCalls /\ Quiescent
         /\ Call("GuildCreate", 1, FALSE, {})
    \/ \E i \in DOMAIN calls : CaptureMiddlewares(i)
    \/ \E i \in DOMAIN calls, set \in BOOLEAN :
         CallGlobalMiddleware(i, "void", set)
    \/ \E i \in DOMAIN calls : Track(i)
    \/ \E i \in DOMAIN calls : CallSpecific(i)
    \/ \E i \in DOMAIN calls : CallRaw(i)
    \/ \E u \in DOMAIN units : CopyEvent(u)
    \/ \E u \in DOMAIN units : SetSharedBase(u)
    \/ \E u \in DOMAIN units, set \in BOOLEAN : CallHandler(u, "void", set)

SpecContext == Init /\ [][NextContext]_vars

\* Handlers for interface{} and GuildJoin and one global middleware, which
\* stores a value in the Base, are registered; a GuildCreate event of an
\* unknown guild is dispatched with Call; a handler may call Set on the Base
\* of its event once.
VisibleTypes == {interfaceType, "GuildJoin", "GuildCreate"}

NextVisible ==
    \/ \E t \in VisibleTypes, n \in {0, 1} :
         Len(metas) < VisibleHandlers /\ calls = <<>> /\ AddHandler(t, FALSE, n)
    \/ currentSerial < VisibleMiddlewares /\ calls = <<>>
         /\ TryAddMiddleware(interfaceType)
    \/ Len(calls) < VisibleCalls /\ Quiescent
         /\ Call("GuildCreate", 1, FALSE, {})
    \/ \E i \in DOMAIN calls : CaptureMiddlewares(i)
    \/ \E i \in DOMAIN calls, set \in BOOLEAN :
         CallGlobalMiddleware(i, "void", set)
    \/ \E i \in DOMAIN calls : Track(i)
    \/ \E i \in DOMAIN calls : CallSpecific(i)
    \/ \E i \in DOMAIN calls : CallRaw(i)
    \/ \E u \in DOMAIN units : CopyEvent(u)
    \/ \E u \in DOMAIN units : SetSharedBase(u)
    \/ \E u \in DOMAIN units : CallMiddleware(u, "void", FALSE)
    \/ \E u \in DOMAIN units : BeginSet(u)
    \/ \E u \in DOMAIN units : EndSet(u)
    \/ \E u \in DOMAIN units : CallHandler(u, "void", FALSE)

SpecVisible == Init /\ [][NextVisible]_vars

\* Handlers for interface{}, without middlewares, and for MessageCreate, with
\* one per-handler middleware, are registered, Open is called, and two
\* MessageCreate events arrive on the channel one after the other; every
\* middleware and every handler may return without a result, return an
\* error, or panic.
IsolationTypes == {interfaceType, "MessageCreate"}
IsolationOutcomes == {"void", "error", "panic"}

NextIsolation ==
    \/ \E t \in IsolationTypes :
         Len(metas) < IsolationHandlers /\ loops = <<>>
           /\ AddHandler(t, FALSE, IF t = interfaceType THEN 0 ELSE 1)
    \/ loops = <<>> /\ Open
    \/ \E l \in DOMAIN loops :
         Events < 2 /\ Quiescent
           /\ LoopReceive(l, "MessageCreate", 0, FALSE, {})
    \/ \E l \in DOMAIN loops : LoopDispatch(l)
    \/ \E i \in DOMAIN calls : CaptureMiddlewares(i)
    \/ \E i \in DOMAIN calls : CallRaw(i)
    \/ \E i \in DOMAIN calls : CallDone(i)
    \/ \E u \in DOMAIN units : CopyEvent(u)
    \/ \E u \in DOMAIN units, out \in IsolationOutcomes :
         CallMiddleware(u, out, FALSE)
    \/ \E u \in DOMAIN units, out \in IsolationOutcomes :
         CallHandler(u, out, FALSE)

SpecIsolation == Init /\ [][NextIsolation]_vars

\* Global middlewares and handlers for interface{} and MessageCreate are
\* registered, Open is called, and MessageCreate events arrive on the channel
\* one after the other; a global middleware may return without a result,
\* return nil, Filtered or another error, or panic.
PanicTypes == {interfaceType, "MessageCreate"}

NextPanic ==
    \/ \E t \in PanicTypes :
         currentSerial < PanicMiddlewares /\ loops = <<>> /\ TryAddMiddleware(t)
    \/ \E t \in PanicTypes :
         Len(metas) < PanicHandlers /\ loops = <<>> /\ AddHandler(t, FALSE, 0)
    \/ loops = <<>> /\ Open
    \/ \E l \in DOMAIN loops :
         Events < PanicCalls /\ Quiescent
           /\ LoopReceive(l, "MessageCreate", 0, FALSE, {})
    \/ \E l \in DOMAIN loops : LoopDispatch(l)
    \/ \E i \in DOMAIN calls : CaptureMiddlewares(i)
    \/ \E i \in DOMAIN calls, out \in Outcomes :
         CallGlobalMiddleware(i, out, FALSE)
    \/ \E i \in DOMAIN calls : CallRaw(i)
    \/ \E i \in DOMAIN calls : CallDone(i)
    \/ \E u \in DOMAIN units : CopyEvent(u)
    \/ \E u \in DOMAIN units : CallHandler(u, "void", FALSE)

SpecPanic == Init /\ [][NextPanic]_vars

\* One global middleware and then one handler, for interface{} or GuildReady,
\* are registered; then Ready, GuildCreate and GuildDelete events are
\* dispatched with Call by one caller, one at a time; the global middleware
\* may return without a result, return Filtered or another error, or panic.
TrackTypes == {interfaceType, "GuildReady"}
TrackOutcomes == {"void", Filtered, "error", "panic"}

\* whether the registrations are made and the one before has been handled
TrackReady == currentSerial = 1 /\ Len(metas) = 1 /\ Quiescent

NextTrack ==
    \/ currentSerial = 0 /\ TryAddMiddleware(interfaceType)
    \/ \E t \in TrackTypes :
         currentSerial = 1 /\ metas = <<>> /\ AddHandler(t, FALSE, 0)
    \/ \E gs \in SUBSET GuildIDs :
         Len(calls) < TrackCalls /\ TrackReady /\ gs # {}
           /\ Call("Ready", 0, FALSE, Snapshot(gs, gs))
    \/ \E g \in GuildIDs :
         Len(calls) < TrackCalls /\ TrackReady
           /\ Call("GuildCreate", g, FALSE, {})
    \/ \E g \in GuildIDs, unavailable \in BOOLEAN :
         Len(calls) < TrackCalls /\ TrackReady
           /\ Call("GuildDelete", g, unavailable, {})
    \/ \E i \in DOMAIN calls : CaptureMiddlewares(i)
    \/ \E i \in DOMAIN calls, out \in TrackOutcomes :
         CallGlobalMiddleware(i, out, FALSE)
    \/ \E i \in DOMAIN calls : Track(i)
    \/ \E i \in DOMAIN calls : CallSpecific(i)
    \/ \E i \in DOMAIN calls : CallRaw(i)
    \/ \E u \in DOMAIN units : CopyEvent(u)
    \/ \E u \in DOMAIN units : SetSharedBase(u)
    \/ \E u \in DOMAIN units : CallHandler(u, "void", FALSE)

SpecTrack == Init /\ [][NextTrack]_vars

\* At most one global middleware for interface{} and handlers for interface{},
\* *Base, GuildCreate and GuildLeave are registered; then GuildCreate and
\* GuildDelete events are dispatched with Call by one caller, one at a time.
\* The middleware lets every event pass: it has no result or returns a nil
\* error.
DirectTypes == {interfaceType, baseType, "GuildCreate", "GuildLeave"}
DirectOutcomes == {"void", "nil"}

NextDirect ==
    \/ currentSerial = 0 /\ calls = <<>> /\ TryAddMiddleware(interfaceType)
    \/ \E t \in DirectTypes :
         Len(metas) < DirectHandlers /\ calls = <<>> /\ AddHandler(t, FALSE, 0)
    \/ \E g \in GuildIDs :
         Len(calls) < DirectCalls /\ Quiescent
           /\ Call("GuildCreate", g, FALSE, {})
    \/ \E g \in GuildIDs, unavailable \in BOOLEAN :
         Len(calls) < DirectCalls /\ Quiescent
           /\ Call("GuildDelete", g, unavailable, {})
    \/ \E i \in DOMAIN calls : CaptureMiddlewares(i)
    \/ \E i \in DOMAIN calls, out \in DirectOutcomes :
         CallGlobalMiddleware(i, out, FALSE)
    \/ \E i \in DOMAIN calls : Track(i)
    \/ \E i \in DOMAIN calls : CallSpecific(i)
    \/ \E i \in DOMAIN calls : CallRaw(i)
    \/ \E u \in DOMAIN units : CopyEvent(u)
    \/ \E u \in DOMAIN units : SetSharedBase(u)
    \/ \E u \in DOMAIN units : CallHandler(u, "void", FALSE)

SpecDirect == Init /\ [][NextDirect]_vars

\* Handlers for interface{}, MessageCreate and GuildCreate are registered, then
\* one MessageCreate or GuildCreate is dispatched with Call.  The body of
\* every handler waits until the bodies of all handlers of the event have
\* been entered (a barrier) and then returns.
BarrierTypes == {interfaceType, "MessageCreate", "GuildCreate"}

\* the number of handlers of the event of call i
Expected(i) ==
    IF calls[i].et = "GuildCreate"
      THEN Len(Matching(GuildCreateEvent(calls[i].guild), FALSE))
             + Len(Matching("GuildCreate", TRUE))
      ELSE Len(Matching(calls[i].et, FALSE))

\* the handler goroutines of call i whose handler has been entered
Entered(i) ==
    {u \in DOMAIN units :
       units[u].call = i /\ units[u].pc \in {"body", "done"}}

\* the barrier in the body of the handler
BarrierOpen(i) == Cardinality(Entered(i)) = Expected(i)

BarrierHandler(u) ==
    /\ u \in DOMAIN units
    /\ BarrierOpen(units[u].call)
    /\ CallHandler(u, "void", FALSE)

BarrierRegister ==
    \E t \in BarrierTypes :
      Len(metas) < BarrierHandlers /\ calls = <<>> /\ AddHandler(t, FALSE, 0)

BarrierCall ==
    \E t \in {"MessageCreate", "GuildCreate"}, g \in GuildIDs :
      calls = <<>> /\ metas # <<>> /\ Call(t, g, FALSE, {})

NextBarrier ==
    \/ BarrierRegister
    \/ BarrierCall
    \/ \E i \in DOMAIN calls : CaptureMiddlewares(i)
    \/ \E i \in DOMAIN calls : Track(i)
    \/ \E i \in DOMAIN calls : StartHandler(i)
    \/ \E i \in DOMAIN calls : CallReturn(i)
    \/ \E u \in DOMAIN units : CopyEvent(u)
    \/ \E u \in DOMAIN units : SetSharedBase(u)
    \/ \E u \in DOMAIN units : BarrierHandler(u)

\* every goroutine that can take a step is scheduled
SpecBarrier ==
    /\ Init /\ [][NextBarrier]_vars
    /\ WF_vars(\E i \in DOMAIN calls : CaptureMiddlewares(i))
    /\ WF_vars(\E i \in DOMAIN calls : Track(i))
    /\ WF_vars(\E i \in DOMAIN calls : StartHandler(i))
    /\ WF_vars(\E i \in DOMAIN calls : CallReturn(i))
    /\ WF_vars(\E u \in DOMAIN units : CopyEvent(u))
    /\ WF_vars(\E u \in DOMAIN units : SetSharedBase(u))
    /\ WF_vars(\E u \in DOMAIN units : BarrierHandler(u))

\* One value is handed to TryAddHandler or TryAddHandlerOnce, alone or, when
\* addHandler gets as far as its middlewares, with one middleware value, or to
\* TryAddMiddleware.
NextTry ==
    \/ \E v \in Values, once \in BOOLEAN :
         attempts = <<>> /\ TryAddHandler(v, once, <<>>)
    \/ \E v \in {x \in Values : AddHandlerResult(x, <<>>) = "ok"},
          m \in Values, once \in BOOLEAN :
         attempts = <<>> /\ TryAddHandler(v, once, <<m>>)
    \/ \E v \in Values : attempts = <<>> /\ TryAddMiddlewareValue(v)

SpecTry == Init /\ [][NextTry]_vars

\* One handler for MessageCreate is added with AddHandlerOnce, alone or with
\* one middleware; then MessageCreate events are dispatched with Call,
\* concurrently.  The middleware may let the event pass, with no result or a
\* nil error, or stop it; the handler may return or panic.
OnceOutcomes == {"void", "nil", Filtered, "error", "panic"}

NextOnce ==
    \/ \E n \in 0..1 :
         metas = <<>> /\ calls = <<>> /\ AddHandler("MessageCreate", TRUE, n)
    \/ Len(calls) < OnceCalls /\ metas # <<>>
         /\ Call("MessageCreate", 0, FALSE, {})
    \/ \E i \in DOMAIN calls : CaptureMiddlewares(i)
    \/ \E i \in DOMAIN calls : CallRaw(i)
    \/ \E u \in DOMAIN units : CopyEvent(u)
    \/ \E u \in DOMAIN units, out \in OnceOutcomes :
         CallMiddleware(u, out, FALSE)
    \/ \E u \in DOMAIN units, out \in {"void", "panic"} :
         CallHandler(u, out, FALSE)

SpecOnce == Init /\ [][NextOnce]_vars

\* A global middleware and a handler for interface{} are registered, Open is
\* called, and MessageCreate events and values of a type generateEvent does
\* not know arrive on the channel.
DropTypes == {"MessageCreate", "Unknown"}

NextDrop ==
    \/ currentSerial = 0 /\ loops = <<>> /\ TryAddMiddleware(interfaceType)
    \/ metas = <<>> /\ loops = <<>> /\ AddHandler(interfaceType, FALSE, 0)
    \/ loops = <<>> /\ Open
    \/ \E l \in DOMAIN loops, t \in DropTypes :
         Len(loops[l].received) < DropEvents /\ LoopReceive(l, t, 0, FALSE, {})
    \/ \E l \in DOMAIN loops : LoopDispatch(l)
    \/ \E i \in DOMAIN calls : CaptureMiddlewares(i)
    \/ \E i \in DOMAIN calls : CallGlobalMiddleware(i, "void", FALSE)
    \/ \E i \in DOMAIN calls : CallRaw(i)
    \/ \E i \in DOMAIN calls : CallDone(i)
    \/ \E u \in DOMAIN units : CopyEvent(u)
    \/ \E u \in DOMAIN units : CallHandler(u, "void", FALSE)

SpecDrop == Init /\ [][NextDrop]_vars

\* At most one global middleware for interface{} and one handler for
\* MessageCreate, alone or with one middleware, are registered; Open is
\* called and MessageCreate events arrive on the channel.  Every func of the
\* user either returns without a result or never returns.  Every goroutine
\* that can take a step is scheduled.
BlockRegister ==
    \/ currentSerial = 0 /\ loops = <<>> /\ TryAddMiddleware(interfaceType)
    \/ \E n \in 0..1 :
         metas = <<>> /\ loops = <<>> /\ AddHandler("MessageCreate", FALSE, n)

BlockArrive ==
    \E l \in DOMAIN loops :
      Len(loops[l].received) < BlockEvents
        /\ LoopReceive(l, "MessageCreate", 0, FALSE, {})

NextBlock ==
    \/ BlockRegister
    \/ loops = <<>> /\ metas # <<>> /\ Open
    \/ BlockArrive
    \/ \E l \in DOMAIN loops : LoopDispatch(l)
    \/ \E i \in DOMAIN calls : CaptureMiddlewares(i)
    \/ \E i \in DOMAIN calls : CallGlobalMiddleware(i, "void", FALSE)
    \/ \E i \in DOMAIN calls : GlobalMiddlewareBlocks(i)
    \/ \E i \in DOMAIN calls : CallRaw(i)
    \/ \E i \in DOMAIN calls : CallDone(i)
    \/ \E u \in DOMAIN units : CopyEvent(u)
    \/ \E u \in DOMAIN units : CallMiddleware(u, "void", FALSE)
    \/ \E u \in DOMAIN units : MiddlewareBlocks(u)
    \/ \E u \in DOMAIN units : CallHandler(u, "void", FALSE)
    \/ \E u \in DOMAIN units : HandlerBlocks(u)

SpecBlock ==
    /\ Init /\ [][NextBlock]_vars
    /\ WF_vars(\E l \in DOMAIN loops : LoopDispatch(l))
    /\ WF_vars(\E i \in DOMAIN calls : CaptureMiddlewares(i))
    /\ WF_vars(\E i \in DOMAIN calls :
                 CallGlobalMiddleware(i, "void", FALSE)
                   \/ GlobalMiddlewareBlocks(i))
    /\ WF_vars(\E i \in DOMAIN calls : CallRaw(i))
    /\ WF_vars(\E i \in DOMAIN calls : CallDone(i))
    /\ WF_vars(\E u \in DOMAIN units : CopyEvent(u))
    /\ WF_vars(\E u \in DOMAIN units :
                 CallMiddleware(u, "void", FALSE) \/ MiddlewareBlocks(u))
    /\ WF_vars(\E u \in DOMAIN units :
                 CallHandler(u, "void", FALSE) \/ HandlerBlocks(u))

\* One channel of MessageCreate events, unbuffered or with a buffer of one, is
\* added as handler; Open is called, MessageCreate events arrive on the
\* channel given to Open, and Close is called.  The user may receive from the
\* handler channel or not.  Every goroutine of the handler that can take a
\* step is scheduled.
ChanRegister ==
    \E c \in 0..1 :
      metas = <<>> /\ loops = <<>>
        /\ TryAddHandler([kind |-> "chan", elem |-> "MessageCreate", cap |-> c],
                         FALSE, <<>>)

ChanArrive ==
    \E l \in DOMAIN loops :
      Len(loops[l].received) < ChanEvents
        /\ LoopReceive(l, "MessageCreate", 0, FALSE, {})

NextChan ==
    \/ ChanRegister
    \/ loops = <<>> /\ closes = <<>> /\ metas # <<>> /\ Open
    \/ closes = <<>> /\ loops # <<>> /\ Close
    \/ ChanArrive
    \/ \E id \in DOMAIN metas : ChanReceive(id)
    \/ \E k \in DOMAIN closes : CloseReturn(k)
    \/ \E l \in DOMAIN loops : LoopDispatch(l)
    \/ \E l \in DOMAIN loops : LoopReturn(l)
    \/ \E i \in DOMAIN calls : CaptureMiddlewares(i)
    \/ \E i \in DOMAIN calls : CallRaw(i)
    \/ \E i \in DOMAIN calls : CallDone(i)
    \/ \E u \in DOMAIN units : CopyEvent(u)
    \/ \E u \in DOMAIN units : TrySend(u)

SpecChan ==
    /\ Init /\ [][NextChan]_vars
    /\ WF_vars(\E k \in DOMAIN closes : CloseReturn(k))
    /\ WF_vars(\E l \in DOMAIN loops : LoopDispatch(l))
    /\ WF_vars(\E i \in DOMAIN calls : CaptureMiddlewares(i))
    /\ WF_vars(\E i \in DOMAIN calls : CallRaw(i))
    /\ WF_vars(\E i \in DOMAIN calls : CallDone(i))
    /\ WF_vars(\E u \in DOMAIN units : CopyEvent(u))
    /\ WF_vars(\E u \in DOMAIN units : TrySend(u))

\* Up to two global middlewares, for GuildCreate or GuildJoin, and one handler,
\* for interface{} or GuildJoin, are registered; then GuildCreate and
\* GuildDelete events are dispatched with Call by one caller, one at a time.
\* A middleware returns without a result or returns Filtered.
SituationalMwTypes == {"GuildCreate", "GuildJoin"}
SituationalHandlerTypes == {interfaceType, "GuildJoin"}

NextSituational ==
    \/ \E t \in SituationalMwTypes :
         currentSerial < 2 /\ calls = <<>> /\ TryAddMiddleware(t)
    \/ \E t \in SituationalHandlerTypes :
         metas = <<>> /\ calls = <<>> /\ AddHandler(t, FALSE, 0)
    \/ \E g \in GuildIDs :
         Len(calls) < SituationalCalls /\ Quiescent
           /\ Call("GuildCreate", g, FALSE, {})
    \/ \E g \in GuildIDs, unavailable \in BOOLEAN :
         Len(calls) < SituationalCalls /\ Quiescent
           /\ Call("GuildDelete", g, unavailable, {})
    \/ \E i \in DOMAIN calls : CaptureMiddlewares(i)
    \/ \E i \in DOMAIN calls, out \in {"void", Filtered} :
         CallGlobalMiddleware(i, out, FALSE)
    \/ \E i \in DOMAIN calls : Track(i)
    \/ \E i \in DOMAIN calls : CallSpecific(i)
    \/ \E i \in DOMAIN calls : CallRaw(i)
    \/ \E u \in DOMAIN units : CopyEvent(u)
    \/ \E u \in DOMAIN units : SetSharedBase(u)
    \/ \E u \in DOMAIN units : CallHandler(u, "void", FALSE)

SpecSituational == Init /\ [][NextSituational]_vars

\* One handler for MessageCreate is added with one or more per-handler
\* middlewares, and MessageCreate events are dispatched with Call, also
\* concurrently; a middleware returns nothing, nil, Filtered or another
\* error, or panics.
NextChain ==
    \/ \E n \in 1..ChainMiddlewares :
         metas = <<>> /\ AddHandler("MessageCreate", FALSE, n)
    \/ Len(calls) < ChainCalls /\ metas # <<>>
         /\ Call("MessageCreate", 0, FALSE, {})
    \/ \E i \in DOMAIN calls : CaptureMiddlewares(i)
    \/ \E i \in DOMAIN calls : CallRaw(i)
    \/ \E u \in DOMAIN units : CopyEvent(u)
    \/ \E u \in DOMAIN units, out \in Outcomes :
         CallMiddleware(u, out, FALSE)
    \/ \E u \in DOMAIN units : CallHandler(u, "void", FALSE)

SpecChain == Init /\ [][NextChain]_vars

\* At most one global middleware for interface{} and one handler for
\* interface{} are registered; Open is called, and Ready, GuildCreate and
\* GuildDelete events arrive on the channel.  The goroutines Open starts for
\* the events run in any interleaving.
ArrivalArrive ==
    \E l \in DOMAIN loops :
      /\ Len(loops[l].received) < ArrivalEvents
      /\ \/ \E gs \in SUBSET GuildIDs :
              LoopReceive(l, "Ready", 0, FALSE, Snapshot(gs, gs))
         \/ \E g \in GuildIDs : LoopReceive(l, "GuildCreate", g, FALSE, {})
         \/ \E g \in GuildIDs, unavailable \in BOOLEAN :
              LoopReceive(l, "GuildDelete", g, unavailable, {})

NextArrival ==
    \/ currentSerial = 0 /\ loops = <<>> /\ TryAddMiddleware(interfaceType)
    \/ metas = <<>> /\ loops = <<>> /\ AddHandler(interfaceType, FALSE, 0)
    \/ loops = <<>> /\ Open
    \/ ArrivalArrive
    \/ \E l \in DOMAIN loops : LoopDispatch(l)
    \/ \E i \in DOMAIN calls : CaptureMiddlewares(i)
    \/ \E i \in DOMAIN calls : CallGlobalMiddleware(i, "void", FALSE)
    \/ \E i \in DOMAIN calls : Track(i)
    \/ \E i \in DOMAIN calls : CallSpecific(i)
    \/ \E i \in DOMAIN calls : CallRaw(i)
    \/ \E i \in DOMAIN calls : CallDone(i)
    \/ \E u \in DOMAIN units : CopyEvent(u)
    \/ \E u \in DOMAIN units : SetSharedBase(u)
    \/ \E u \in DOMAIN units : CallHandler(u, "void", FALSE)

SpecArrival == Init /\ [][NextArrival]_vars

\* Ready and GuildDelete events are dispatched with Call one at a time; then
\* two GuildCreate events are dispatched by two callers at once.  A handler
\* for interface{} may be registered.
Creates == {i \in DOMAIN calls : calls[i].et = "GuildCreate"}

NextAtomic ==
    \/ metas = <<>> /\ calls = <<>> /\ AddHandler(interfaceType, FALSE, 0)
    \/ \E gs \in SUBSET GuildIDs :
         Len(calls) < AtomicSetup /\ Quiescent /\ Creates = {}
           /\ Call("Ready", 0, FALSE, Snapshot(gs, gs))
    \/ \E g \in GuildIDs, unavailable \in BOOLEAN :
         Len(calls) < AtomicSetup /\ Quiescent /\ Creates = {}
           /\ Call("GuildDelete", g, unavailable, {})
    \/ \E g \in GuildIDs :
         /\ Cardinality(Creates) < 2
         /\ \A i \in DOMAIN calls \ Creates : calls[i].pc = "done"
         /\ Call("GuildCreate", g, FALSE, {})
    \/ \E i \in DOMAIN calls : CaptureMiddlewares(i)
    \/ \E i \in DOMAIN calls : Track(i)
    \/ \E i \in DOMAIN calls : CallSpecific(i)
    \/ \E i \in DOMAIN calls : CallRaw(i)
    \/ \E u \in DOMAIN units : CopyEvent(u)
    \/ \E u \in DOMAIN units : SetSharedBase(u)
    \/ \E u \in DOMAIN units : CallHandler(u, "void", FALSE)

SpecAtomic == Init /\ [][NextAtomic]_vars

\* At most one global middleware for interface{} is registered; Open is
\* called, and GuildCreate and GuildDelete events of one guild arrive on the
\* channel.
NextCache ==
    \/ currentSerial = 0 /\ loops = <<>> /\ TryAddMiddleware(interfaceType)
    \/ loops = <<>> /\ Open
    \/ \E l \in DOMAIN loops :
         Len(loops[l].received) < CacheEvents
           /\ \/ LoopReceive(l, "GuildCreate", 1, FALSE, {})
              \/ LoopReceive(l, "GuildDelete", 1, FALSE, {})
    \/ \E l \in DOMAIN loops : GenerateEvent(l)
    \/ \E l \in DOMAIN loops : SessionCall(l)
    \/ \E l \in DOMAIN loops : GoCallEvent(l)
    \/ \E l \in DOMAIN loops : LoopNext(l)
    \/ \E i \in DOMAIN calls : CaptureMiddlewares(i)
    \/ \E i \in DOMAIN calls : CallGlobalMiddleware(i, "void", FALSE)
    \/ \E i \in DOMAIN calls : Track(i)
    \/ \E i \in DOMAIN calls : CallSpecific(i)
    \/ \E i \in DOMAIN calls : CallRaw(i)
    \/ \E i \in DOMAIN calls : CallDone(i)

SpecCache == Init /\ [][NextCache]_vars

\* At most one global middleware for interface{} and one handler for
\* MessageCreate, alone or with one middleware, are registered; Open is
\* called once, MessageCreate events arrive on the channel, and Close is
\* called up to twice, one call after the other.  Every func of the user
\* returns, with any result, or panics.  Every goroutine that can take a step
\* is scheduled.
ShutdownRegister ==
    \/ currentSerial = 0 /\ loops = <<>> /\ closes = <<>>
         /\ TryAddMiddleware(interfaceType)
    \/ \E n \in 0..1 :
         metas = <<>> /\ loops = <<>> /\ closes = <<>>
           /\ AddHandler("MessageCreate", FALSE, n)

ShutdownArrive ==
    \E l \in DOMAIN loops :
      Len(loops[l].received) < ShutdownEvents
        /\ LoopReceive(l, "MessageCreate", 0, FALSE, {})

NextShutdown ==
    \/ ShutdownRegister
    \/ loops = <<>> /\ Open
    \/ ShutdownArrive
    \/ Len(closes) < 2 /\ NoCloseWaiting /\ Close
    \/ \E k \in DOMAIN closes : CloseReturn(k)
    \/ \E l \in DOMAIN loops : LoopDispatch(l)
    \/ \E l \in DOMAIN loops : LoopReturn(l)
    \/ \E i \in DOMAIN calls : CaptureMiddlewares(i)
    \/ \E i \in DOMAIN calls, out \in Outcomes :
         CallGlobalMiddleware(i, out, FALSE)
    \/ \E i \in DOMAIN calls : CallRaw(i)
    \/ \E i \in DOMAIN calls : CallDone(i)
    \/ \E u \in DOMAIN units : CopyEvent(u)
    \/ \E u \in DOMAIN units, out \in Outcomes :
         CallMiddleware(u, out, FALSE)
    \/ \E u \in DOMAIN units, out \in Outcomes : CallHandler(u, out, FALSE)

SpecShutdown ==
    /\ Init /\ [][NextShutdown]_vars
    /\ WF_vars(\E k \in DOMAIN closes : CloseReturn(k))
    /\ WF_vars(\E l \in DOMAIN loops : LoopDispatch(l))
    /\ WF_vars(\E i \in DOMAIN calls : CaptureMiddlewares(i))
    /\ WF_vars(\E i \in DOMAIN calls, out \in Outcomes :
                 CallGlobalMiddleware(i, out, FALSE))
    /\ WF_vars(\E i \in DOMAIN calls : CallRaw(i))
    /\ WF_vars(\E i \in DOMAIN calls : CallDone(i))
    /\ WF_vars(\E u \in DOMAIN units : CopyEvent(u))
    /\ WF_vars(\E u \in DOMAIN units, out \in Outcomes :
                 CallMiddleware(u, out, FALSE))
    /\ WF_vars(\E u \in DOMAIN units, out \in Outcomes :
                 CallHandler(u, out, FALSE))

\* One of the Try functions is called once with arbitrary values; then
\* MessageCreate events are dispatched with Call.
NextFrame ==
    \/ \E v \in Values, once \in BOOLEAN :
         attempts = <<>> /\ TryAddHandler(v, once, <<>>)
    \/ \E v \in {x \in Values : AddHandlerResult(x, <<>>) = "ok"},
          m \in Values, once \in BOOLEAN :
         attempts = <<>> /\ TryAddHandler(v, once, <<m>>)
    \/ \E v \in Values : attempts = <<>> /\ TryAddMiddlewareValue(v)
    \/ Len(calls) < FrameCalls /\ attempts # <<>>
         /\ Call("MessageCreate", 0, FALSE, {})
    \/ \E i \in DOMAIN calls : CaptureMiddlewares(i)
    \/ \E i \in DOMAIN calls : CallGlobalMiddleware(i, "void", FALSE)
    \/ \E i \in DOMAIN calls : CallRaw(i)
    \/ \E u \in DOMAIN units : CopyEvent(u)
    \/ \E u \in DOMAIN units : CallMiddleware(u, "void", FALSE)
    \/ \E u \in DOMAIN units : CallHandler(u, "void", FALSE)
    \/ \E u \in DOMAIN units : TrySend(u)

SpecFrame == Init /\ [][NextFrame]_vars

\* ---- EventHandler of package state (event_handler.go): the global
\* middlewares under globalMiddlewaresMutex
\* the calls that hold globalMiddlewaresMutex for reading:
\* callGlobalMiddlewares takes it at its head and releases it, deferred, when
\* it returns, so it is held while the middlewares are called
MiddlewareReaders == {i \in DOMAIN calls : calls[i].pc = "mw"}

\* the calls of AddGlobalMiddleware that are in globalMiddlewaresMutex.Lock()
Waiting == {k \in DOMAIN attempts : attempts[k].result = "waiting"}

\* whether the middleware that call i is in has called AddGlobalMiddleware
\* and not returned from it
WaitingIn(i) == \E k \in Waiting : attempts[k].by = i

\* AddGlobalMiddleware with a valid middleware for type t, up to Lock; by is
\* 0 for a goroutine of the user and i for the global middleware that call i
\* is in
BeginAddGlobalMiddleware(by, t) ==
    /\ by # 0 => /\ by \in DOMAIN calls
                 /\ calls[by].pc = "mw"
                 /\ ~WaitingIn(by)
    /\ attempts' = Append(attempts,
                      [op |-> "AddGlobalMiddleware", by |-> by, type |-> t,
                       result |-> "waiting"])
    /\ UNCHANGED <<regVars, calls, units, bases, guildVars, handlerWG,
                   lifeVars, store, manager>>

\* Lock returns when no reader holds the mutex; the middleware is appended,
\* and AddGlobalMiddleware returns nil.  EventHandler has no serials: serial
\* is the position of the registration.
AddGlobalMiddleware(k) ==
    /\ k \in Waiting
    /\ MiddlewareReaders = {}
    /\ globalMiddlewares' =
         Store(globalMiddlewares, attempts[k].type,
               Append(Lookup(globalMiddlewares, attempts[k].type),
                      [serial |-> currentSerial]))
    /\ currentSerial' = currentSerial + 1
    /\ attempts' = [attempts EXCEPT ![k].result = "ok"]
    /\ UNCHANGED <<handlers, metas, calls, units, bases, guildVars, handlerWG,
                   lifeVars, store, manager>>

\* RLock at the head of callGlobalMiddlewares: a sync.RWMutex lets no new
\* reader in while a call of Lock is waiting
RLockMiddlewares(i) == Waiting = {} /\ CaptureMiddlewares(i)

\* Global middlewares for interface{} are added with AddGlobalMiddleware, by
\* the user's goroutines and by global middlewares while they run, and
\* MessageCreate events are dispatched with Call.  Every goroutine that can
\* take a step is scheduled.
NextLegacy ==
    \/ \E by \in {0} \cup DOMAIN calls :
         Len(attempts) < LegacyAdds
           /\ BeginAddGlobalMiddleware(by, interfaceType)
    \/ \E k \in DOMAIN attempts : AddGlobalMiddleware(k)
    \/ Len(calls) < LegacyCalls /\ Call("MessageCreate", 0, FALSE, {})
    \/ \E i \in DOMAIN calls : RLockMiddlewares(i)
    \/ \E i \in DOMAIN calls :
         ~WaitingIn(i) /\ CallGlobalMiddleware(i, "void", FALSE)
    \/ \E i \in DOMAIN calls : CallRaw(i)

SpecLegacy ==
    /\ Init /\ [][NextLegacy]_vars
    /\ WF_vars(\E k \in DOMAIN attempts : AddGlobalMiddleware(k))
    /\ WF_vars(\E i \in DOMAIN calls : RLockMiddlewares(i))
    /\ WF_vars(\E i \in DOMAIN calls :
                 ~WaitingIn(i) /\ CallGlobalMiddleware(i, "void", FALSE))
    /\ WF_vars(\E i \in DOMAIN calls : CallRaw(i))

\* ------------------------------------------------------------------ claims
IsAscending(s) == \A a, b \in DOMAIN s : a < b => s[a] < s[b]

\* the serials of the global middlewares registered for interface{}, *Base or
\* the type of the event of call c before c read the table
RegisteredFor(c) ==
    {m.serial : m \in Range(Lookup(globalMiddlewares, interfaceType))
                        \cup Range(Lookup(globalMiddlewares, baseType))
                        \cup Range(Lookup(globalMiddlewares, c.et))}
      \cap {n \in 0..currentSerial : n < c.serialAtCapture}

\* whether callGlobalMiddlewares of call c has returned
PastMiddlewares(c) == c.pc \notin {"capture", "mw"}

\* C1: a dispatch that no global middleware stops has invoked every global
\* middleware registered for interface{}, *Base or the event's type before
\* the dispatch, each exactly once, in strictly ascending order of the
\* serials, whichever of the three lists holds it.
C1_GlobalMiddlewareOrder ==
    \A i \in DOMAIN calls :
      (PastMiddlewares(calls[i]) /\ ~calls[i].abort) =>
        /\ IsAscending(calls[i].invoked)
        /\ Range(calls[i].invoked) = RegisteredFor(calls[i])

\* a dispatch that ran three middlewares, one out of each list
C1_Witness ==
    \E i \in DOMAIN calls :
      /\ calls[i].pc = "done" /\ ~calls[i].abort
      /\ Len(calls[i].invoked) = 3
      /\ calls[i].im = 1 /\ calls[i].bm = 1 /\ calls[i].tm = 1

\* C2: once a global middleware has returned Filtered for an event, no global
\* middleware with a larger serial is invoked for it, no handler goroutine is
\* started for it, and neither ErrorHandler nor PanicHandler is called for it.
C2_FilteredStopsDispatch ==
    \A i \in DOMAIN calls :
      calls[i].filteredAt >= 0 =>
        /\ \A k \in DOMAIN calls[i].invoked :
             calls[i].invoked[k] <= calls[i].filteredAt
        /\ calls[i].pc # "mw"
        /\ \A u \in DOMAIN units : units[u].call # i
        /\ calls[i].errors = 0
        /\ calls[i].panics = 0

\* a filtered dispatch has returned although a later global middleware was
\* captured and a handler for interface{}, *Base or the event's type exists
C2_Witness ==
    \E i \in DOMAIN calls :
      /\ calls[i].filteredAt >= 0
      /\ calls[i].pc = "done"
      /\ calls[i].im + calls[i].tm
           < Len(calls[i].interfaceMiddlewares) + Len(calls[i].typedMiddlewares)
      /\ Matching(calls[i].et, FALSE) # <<>>

\* whether handler id is in the registration table
Registered(id) == id \in Range(Lookup(handlers, metas[id].eventType))

\* C3 (as claimed): once a dispatch has reached a one-shot handler, i.e. a
\* handler goroutine of it has run to its end, also when a per-handler
\* middleware filtered the event, the handler is out of the registration
\* table, and only one dispatch has run its body.
C3_OneShotRemovedByFirstDispatch ==
    \A u \in DOMAIN units :
      (metas[units[u].handler].execOnce /\ units[u].pc = "done") =>
        /\ ~Registered(units[u].handler)
        /\ \A v \in DOMAIN units :
             (units[v].handler = units[u].handler /\ units[v].ran) =>
               units[v].call <= units[u].call

\* C4 (as claimed): after the removal function of a handler has returned, the
\* handler is not in the registration table, so that no dispatch that starts
\* afterwards finds it.
C4_RemovedHandlerNotRegistered ==
    \A id \in DOMAIN metas :
      metas[id].rmDone =>
        ~Registered(id)

\* the static intents of the typed category t: those of the gateway event
StaticIntents(t) == eventIntents(GatewayType(t))

\* whether the typed category t has a live registration: a handler for the
\* event type or for the gateway type it wraps whose removal function has not
\* been called, or a global middleware
Live(t) ==
    \E x \in {t, GatewayType(t)} :
      \/ \E id \in DOMAIN metas : metas[id].eventType = x /\ ~metas[id].rmDone
      \/ Lookup(globalMiddlewares, x) # <<>>

\* C5 (as claimed): DeriveIntents is the union of the static intents of the
\* typed categories with at least one live registration.
C5_DeriveIntentsOfLiveRegistrations ==
    DeriveIntents = UNION {StaticIntents(t) : t \in {x \in EventTypes : Live(x)}}

\* the situational event of a GuildCreate by the state machine of the claim:
\* the guild's state is the one its last transition left
ByLastTransition(last) ==
    CASE last = "GuildUnavailable" -> "GuildAvailable"
      [] last = "Ready" -> "GuildReady"
      [] OTHER -> "GuildJoin"

\* C6 (as claimed): the situational event of a GuildCreate depends only on
\* the last transition of its guild: GuildAvailable after a
\* GuildDelete(unavailable), GuildReady after a Ready announcing the guild,
\* GuildJoin otherwise.
C6_GuildCreateByLastTransition ==
    \A i \in DOMAIN calls :
      (calls[i].et = "GuildCreate" /\ calls[i].specific # "none") =>
        calls[i].specific = ByLastTransition(calls[i].prior)

\* C7 (as claimed): no guild id is in unreadyGuilds and in unavailableGuilds.
C7_GuildSetsDisjoint == unreadyGuilds \cap unavailableGuilds = {}

\* whether every handler goroutine that ran when Close number k was called has
\* returned
BeforeDone(k) == \A u \in closes[k].before : units[u].pc = "done"

C9_NoHandlerOutlivesClose ==
    \A k \in DOMAIN closes :
      (closes[k].pc = "returned" /\ closes[k].closed # 0) =>
        \A i \in DOMAIN calls :
          (calls[i].loop # 0 /\ loops[calls[i].loop].closer = closes[k].closed) =>
            /\ calls[i].pc = "done"
            /\ \A u \in DOMAIN units : units[u].call = i => units[u].pc = "done"

\* C10 (as claimed): what a handler finds in the Base of its copy of the event
\* is what the global middlewares left there, and nothing a sibling handler
\* or its per-handler middleware stored.
C10_HandlersSeePostMiddlewareContext ==
    \A u \in DOMAIN units :
      units[u].ran => units[u].seen \ {u} = calls[units[u].call].context

\* C11 (as claimed): what the global middlewares of an event have stored in
\* its Base is in the Base that the next global middleware, every per-handler
\* middleware and every handler of the event is given, so that Lookup returns
\* it there.
C11_MiddlewareValuesVisible ==
    /\ \A i \in DOMAIN calls :
         calls[i].pc = "mw" => calls[i].context \subseteq bases[calls[i].base]
    /\ \A u \in DOMAIN units :
         units[u].pc \in {"mw", "body", "setting"} =>
           calls[units[u].call].context \subseteq bases[UnitBase(u)]

\* the handler goroutines of call i
UnitsOf(i) == {u \in DOMAIN units : units[u].call = i}

\* C12: whatever the handlers and per-handler middlewares of an event return
\* or panic with, a goroutine is started for every handler registered for
\* interface{}, *Base or the event's type, for this event and for every later
\* one; a goroutine ends without having called its handler only when its own
\* middleware has ended its chain; and the goroutine of Open goes on
\* receiving.
C12_FailureContained ==
    /\ \A i \in DOMAIN calls :
         calls[i].pc \in {"ret", "done"} =>
           /\ Cardinality(UnitsOf(i)) = Len(Matching(calls[i].et, FALSE))
           /\ {units[u].handler : u \in UnitsOf(i)}
                = Range(Matching(calls[i].et, FALSE))
    /\ \A u \in DOMAIN units :
         (units[u].pc = "done" /\ ~units[u].ran) =>
           units[u].result # "none"
    /\ \A l \in DOMAIN loops : loops[l].pc \in {"select", "received"}

\* a handler of the first event has panicked, its sibling has run to its end,
\* and both handlers ran for the second event
C12_Witness ==
    /\ Len(calls) = 2 /\ Quiescent
    /\ \E u, v \in UnitsOf(1) :
         /\ units[u].result = "panic" /\ units[u].ran
         /\ units[v].result = "void" /\ units[v].ran
    /\ \A u \in UnitsOf(2) : units[u].ran
    /\ Cardinality(UnitsOf(2)) = 2

\* C13: once a global middleware has returned an error other than Filtered for
\* an event, ErrorHandler has been called exactly once for the event, no global
\* middleware with a larger serial is invoked for it and no handler goroutine
\* is started for it.
C13_ErrorStopsDispatch ==
    \A i \in DOMAIN calls :
      calls[i].erroredAt >= 0 =>
        /\ calls[i].errors = 1
        /\ \A k \in DOMAIN calls[i].invoked :
             calls[i].invoked[k] <= calls[i].erroredAt
        /\ calls[i].pc # "mw"
        /\ UnitsOf(i) = {}

\* a dispatch stopped by an error has returned although a later global
\* middleware was captured and a handler for interface{}, *Base or the
\* event's type exists
C13_Witness ==
    \E i \in DOMAIN calls :
      /\ calls[i].erroredAt >= 0
      /\ calls[i].pc = "done"
      /\ calls[i].im + calls[i].tm
           < Len(calls[i].interfaceMiddlewares) + Len(calls[i].typedMiddlewares)
      /\ Matching(calls[i].et, FALSE) # <<>>

\* C14: once a global middleware has panicked for an event, PanicHandler has
\* been called exactly once for the event, no later global middleware is
\* invoked and no handler goroutine is started for it, and Call returns: the
\* panic reaches neither the caller of Call nor the goroutine of Open, which
\* goes on receiving (unless the dispatch of another event ends the process).
C14_PanicStopsDispatch ==
    \A i \in DOMAIN calls :
      calls[i].panickedAt >= 0 =>
        /\ calls[i].panics = 1
        /\ \A k \in DOMAIN calls[i].invoked :
             calls[i].invoked[k] <= calls[i].panickedAt
        /\ calls[i].pc \in {"ret", "done"}
        /\ UnitsOf(i) = {}
        /\ \/ \A l \in DOMAIN loops : loops[l].pc \in {"select", "received"}
           \/ \E j \in DOMAIN calls : j # i /\ calls[j].pc = "panicked"

\* Call has returned in the goroutine of Open after a global middleware
\* panicked, although a later global middleware was captured and a handler
\* exists
C14_Witness ==
    \E i \in DOMAIN calls :
      /\ calls[i].panickedAt >= 0
      /\ calls[i].src = "transport" /\ calls[i].pc = "done"
      /\ calls[i].im + calls[i].tm
           < Len(calls[i].interfaceMiddlewares) + Len(calls[i].typedMiddlewares)
      /\ Matching(calls[i].et, FALSE) # <<>>

\* the two sets of the tracker after the first n dispatched events, when every
\* event makes its transition whether or not its dispatch was stopped
RECURSIVE Replay(_)
Replay(n) ==
    IF n = 0 THEN [unready |-> {}, unavailable |-> {}]
    ELSE LET r == Replay(n - 1)
             c == calls[n]
         IN CASE c.et = "Ready" ->
                   [r EXCEPT !.unready = @ \cup IDs(c.guilds)]
              [] c.et = "GuildCreate" ->
                   IF c.guild \in r.unready
                     THEN [r EXCEPT !.unready = @ \ {c.guild}]
                     ELSE [r EXCEPT !.unavailable = @ \ {c.guild}]
              [] c.et = "GuildDelete" ->
                   IF c.unavailable
                     THEN [r EXCEPT !.unavailable = @ \cup {c.guild}]
                     ELSE [r EXCEPT !.unavailable = @ \ {c.guild}]
              [] OTHER -> r

\* whether a global middleware has stopped the dispatch of call i
Stopped(i) ==
    calls[i].filteredAt >= 0 \/ calls[i].erroredAt >= 0
      \/ calls[i].panickedAt >= 0

\* C15: a Ready, GuildCreate or GuildDelete whose dispatch a global middleware
\* stops makes the same transition of the tracker as one whose dispatch is not
\* stopped, and no handler goroutine is started for it, neither for the
\* situational event nor for the raw event.
C15_StoppedEventStillTracked ==
    /\ Quiescent =>
         /\ unreadyGuilds = Replay(Len(calls)).unready
         /\ unavailableGuilds = Replay(Len(calls)).unavailable
    /\ \A i \in DOMAIN calls : Stopped(i) => UnitsOf(i) = {}

\* the dispatch of a GuildCreate was stopped and has returned; its guild was
\* in unreadyGuilds and is not any more, and a handler for interface{} or
\* GuildReady exists
C15_Witness ==
    \E i \in DOMAIN calls :
      /\ Stopped(i) /\ calls[i].pc = "done"
      /\ calls[i].et = "GuildCreate" /\ calls[i].prior = "Ready"
      /\ calls[i].guild \notin unreadyGuilds
      /\ Matching("GuildReady", FALSE) # <<>>

\* the handlers for which call i has started a goroutine with an event of
\* type t
StartedFor(i, t) == {units[u].handler : u \in {v \in UnitsOf(i) : units[v].et = t}}

\* the handlers registered for type t
RegisteredUnder(t) == Range(Lookup(handlers, t))

\* C16 (as claimed): the situational event is given only to handlers
\* registered for its own type, not to handlers for interface{} or *Base.
C16_SituationalOnlyToOwnHandlers ==
    \A u \in DOMAIN units :
      units[u].et \in SituationalTypes =>
        metas[units[u].handler].eventType = units[u].et

\* C16 (amended): the direct dispatch is that of the raw GuildCreate or
\* GuildDelete, which is given only to the handlers registered for its own
\* type; the situational event is given to the handlers for interface{}, for
\* *Base and for its own type.
C16_RawIsDirectDispatch ==
    \A i \in DOMAIN calls :
      (calls[i].et \in {"GuildCreate", "GuildDelete"} /\ calls[i].pc = "done") =>
        /\ StartedFor(i, calls[i].et) = RegisteredUnder(calls[i].et)
        /\ StartedFor(i, calls[i].specific)
             = RegisteredUnder(interfaceType) \cup RegisteredUnder(baseType)
                 \cup RegisteredUnder(calls[i].specific)
        /\ \A u \in UnitsOf(i) : units[u].et \in {calls[i].et, calls[i].specific}

\* a handler for interface{} or *Base has run with the situational event, and
\* a handler for the raw type with the raw event of the same dispatch
C16_Witness ==
    \E i \in DOMAIN calls : \E u, v \in UnitsOf(i) :
      /\ calls[i].pc = "done"
      /\ units[u].et \in SituationalTypes /\ units[u].ran
      /\ metas[units[u].handler].eventType \in {interfaceType, baseType}
      /\ units[v].et = calls[i].et /\ units[v].ran

\* C17: a raw GuildCreate or GuildDelete is never given to a handler for
\* interface{} or *Base; for each such event whose dispatch no middleware
\* has stopped and whose Call is over, every handler for interface{} or *Base
\* is started exactly once, with the situational event.
C17_AllAndBaseGetSituationalOnce ==
    \A i \in DOMAIN calls :
      (calls[i].et \in {"GuildCreate", "GuildDelete"}
         /\ calls[i].pc \in {"done", "panicked"} /\ ~Stopped(i)) =>
        \A id \in RegisteredUnder(interfaceType) \cup RegisteredUnder(baseType) :
          /\ Cardinality({u \in UnitsOf(i) : units[u].handler = id}) = 1
          /\ \A u \in UnitsOf(i) :
               units[u].handler = id =>
                 /\ units[u].et = calls[i].specific
                 /\ units[u].et \in SituationalTypes

\* whether every handler of the event of call i has been called and has
\* returned
AllFinished(i) ==
    /\ Cardinality(UnitsOf(i)) = Expected(i)
    /\ \A u \in UnitsOf(i) : units[u].ran /\ units[u].pc = "done"

\* C18: when the body of every handler of an event waits until the bodies of
\* all handlers of that event have been entered, every handler is called,
\* passes the barrier and returns.
C18_AllHandlersPassBarrier ==
    (calls # <<>>) ~> (\A i \in DOMAIN calls : AllFinished(i))

\* two or more handlers of one event have all passed the barrier and returned
C18_Witness ==
    \E i \in DOMAIN calls :
      /\ Expected(i) >= 2
      /\ AllFinished(i)

\* C19 (as claimed): a GuildDelete yields GuildUnavailable when its flag is
\* set and GuildLeave when it is not; a guild whose last event was a
\* GuildDelete with the flag is in unavailableGuilds only, one whose last
\* event was a GuildDelete without the flag is in neither set, so that the
\* GuildCreate after a GuildLeave yields GuildJoin.
C19_GuildDeleteLeavesOneState ==
    /\ \A i \in DOMAIN calls :
         (calls[i].et = "GuildDelete" /\ calls[i].specific # "none") =>
           calls[i].specific = IF calls[i].unavailable THEN "GuildUnavailable"
                               ELSE "GuildLeave"
    /\ \A g \in GuildIDs :
         /\ lastTransition[g] = "GuildUnavailable" =>
              g \in unavailableGuilds /\ g \notin unreadyGuilds
         /\ lastTransition[g] = "GuildLeave" =>
              g \notin unavailableGuilds /\ g \notin unreadyGuilds
    /\ \A i \in DOMAIN calls :
         (calls[i].et = "GuildCreate" /\ calls[i].prior = "GuildLeave") =>
           calls[i].specific = "GuildJoin"

\* C20 (as claimed): a guild id is in unreadyGuilds only when a Ready had it
\* with Unavailable set, and after a Ready every guild it has with Unavailable
\* set is in unreadyGuilds; the GuildCreate of a guild that no Ready has marked
\* and that has had no other event yields GuildJoin.
C20_ReadyMarksUnavailableGuilds ==
    /\ \A g \in unreadyGuilds :
         \E i \in DOMAIN calls :
           calls[i].et = "Ready" /\ g \in Marked(calls[i].guilds)
    /\ \A i \in DOMAIN calls :
         (i = Len(calls) /\ calls[i].et = "Ready" /\ calls[i].pc = "done") =>
           Marked(calls[i].guilds) \subseteq unreadyGuilds
    /\ \A i \in DOMAIN calls :
         (calls[i].et = "GuildCreate" /\ calls[i].specific # "none"
            /\ calls[i].prior = "none") =>
           calls[i].specific = "GuildJoin"

\* what the documentation asks of a handler or middleware func: two
\* parameters, the first the state, and no result or one error
ValidFunc(v) ==
    /\ v.kind = "func"
    /\ Len(v.in) = 2 /\ v.in[1] = StateType
    /\ v.out \in {<<>>, <<errorType>>}

\* C21 (as claimed): a Try function given a value that is no valid handler or
\* middleware returns ErrInvalidHandler or ErrInvalidMiddleware; it does not
\* panic and registers nothing.
C21_TryNeverPanics ==
    \A k \in DOMAIN attempts :
      LET a == attempts[k]
      IN /\ a.result # "panic"
         /\ (a.op = "TryAddMiddleware" /\ ~ValidFunc(a.value)) =>
              a.result = ErrInvalidMiddleware
         /\ (a.op # "TryAddMiddleware" /\ a.value.kind # "chan"
               /\ ~ValidFunc(a.value)) =>
              a.result = ErrInvalidHandler
         /\ (a.op # "TryAddMiddleware" /\ a.result = "ok") =>
              \A j \in DOMAIN a.middlewares : ValidFunc(a.middlewares[j])

\* C22 (as claimed): a handler func(*State, *Base) is started once for every
\* event that is dispatched to the interface{} and *Base handlers, its body is
\* entered with the Base of its copy of the event, and PanicHandler is not
\* called.
C22_ContextOnlyHandlerRuns ==
    /\ \A i \in DOMAIN calls :
         (calls[i].pc = "done" /\ ~calls[i].abort) =>
           \A id \in RegisteredUnder(baseType) :
             Cardinality({u \in UnitsOf(i) : units[u].handler = id}) = 1
    /\ \A u \in DOMAIN units :
         (metas[units[u].handler].eventType = baseType
            /\ units[u].pc = "done") =>
           /\ units[u].ran
           /\ units[u].result # "panic"
           /\ units[u].seen = bases[units[u].base]

\* the handler goroutines started for handler id
UnitsFor(id) == {u \in DOMAIN units : units[u].handler = id}

\* whether a per-handler middleware has prevented the handler of goroutine u:
\* it returned Filtered or another error, or it panicked
Prevented(u) ==
    /\ units[u].pc = "done" /\ units[u].mwi > 0 /\ ~units[u].ran
    /\ units[u].result \in {Filtered, "error", "panic"}

\* C23 (as claimed): a handler added with AddHandlerOnce whose middlewares
\* have prevented it stays registered, every later event of its type starts a
\* goroutine for it, and once its middlewares have let an event through its
\* body has been executed.
C23_PreventedOneShotRunsLater ==
    \A id \in DOMAIN metas :
      metas[id].execOnce =>
        /\ (\A u \in UnitsFor(id) : Prevented(u)) =>
             \A i \in DOMAIN calls :
               calls[i].pc = "done" =>
                 \E u \in UnitsOf(i) : units[u].handler = id
        /\ (\E u \in UnitsFor(id) : units[u].pc = "done" /\ ~Prevented(u)) =>
             \E v \in UnitsFor(id) : units[v].ran

\* C24: the body of a handler added with AddHandlerOnce is executed at most
\* once, also for events that are dispatched concurrently and all pass its
\* middlewares.
C24_OneShotBodyAtMostOnce ==
    \A id \in DOMAIN metas :
      metas[id].execOnce =>
        Cardinality({u \in UnitsFor(id) : units[u].ran}) <= 1

\* two goroutines of a handler added with AddHandlerOnce were past its
\* middlewares at the same time; both have ended and one has executed the body
C24_Witness ==
    \E id \in DOMAIN metas : \E u, v \in UnitsFor(id) :
      /\ metas[id].execOnce /\ u # v
      /\ units[u].pc = "done" /\ units[v].pc = "done"
      /\ units[u].ran /\ ~units[v].ran
      /\ units[v].result = "none"

\* the values loop l has received and is done with
Processed(l) ==
    IF loops[l].pc = "received"
      THEN SubSeq(loops[l].received, 1, Len(loops[l].received) - 1)
      ELSE loops[l].received

\* the positions in the sequence s of values of a type that generateEvent
\* knows
KnownIn(s) == {k \in DOMAIN s : s[k] \in RawTypes}

\* the invocations of Call made by loop l
CallsOf(l) == {i \in DOMAIN calls : calls[i].loop = l}

\* C25: a value from the channel whose type generateEvent does not know
\* starts no Call, so no global middleware, handler, ErrorHandler or
\* PanicHandler is invoked for it; every other value starts one Call, and the
\* loop goes on receiving.
C25_UnknownValueDropped ==
    \A l \in DOMAIN loops :
      /\ Cardinality(CallsOf(l)) = Cardinality(KnownIn(Processed(l)))
      /\ \A i \in CallsOf(l) :
           calls[i].et \in RawTypes /\ calls[i].errors = 0 /\ calls[i].panics = 0
      /\ loops[l].pc \in {"select", "received"}

\* a MessageCreate that arrived after a value of an unknown type has been
\* given to the handler, and a middleware and a handler for interface{} exist
C25_Witness ==
    \E l \in DOMAIN loops : \E i \in CallsOf(l) : \E u \in UnitsOf(i) :
      /\ Len(loops[l].received) >= 2
      /\ loops[l].received[1] = "Unknown"
      /\ KnownIn(loops[l].received) # {}
      /\ calls[i].pc = "done" /\ calls[i].invoked # <<>>
      /\ units[u].ran

\* whether the event of call i is dispatched as far as the funcs of the user
\* allow: a global middleware has blocked, or Call has returned and every
\* handler of the event has a goroutine that has ended or is blocked in a
\* func of the user
Dispatched(i) ==
    \/ calls[i].pc = "blocked"
    \/ /\ calls[i].pc = "done"
       /\ \A id \in Range(Matching(calls[i].et, FALSE)) :
            \E u \in UnitsOf(i) :
              /\ units[u].handler = id
              /\ \/ units[u].pc = "blocked"
                 \/ units[u].pc = "done" /\ units[u].ran

\* C26: whatever func of the user never returns, the loop of Open comes back
\* to its select after every event it has received, and every received event
\* is dispatched to its handlers.
C26_BlockedFuncDoesNotStopLoop ==
    /\ (loops # <<>> /\ loops[1].pc = "received")
         ~> (loops # <<>> /\ loops[1].pc = "select")
    /\ <>[](/\ \A l \in DOMAIN loops :
                 Cardinality(CallsOf(l)) = Len(Processed(l))
            /\ \A i \in DOMAIN calls : Dispatched(i))

\* a func of the user is blocked for one event, and an event that arrived
\* later has been given to the handler, which has returned
C26_Witness ==
    \E i, j \in DOMAIN calls : \E u \in UnitsOf(j) :
      /\ i < j
      /\ \/ calls[i].pc = "blocked"
         \/ \E v \in UnitsOf(i) : units[v].pc = "blocked"
      /\ calls[j].pc = "done"
      /\ units[u].pc = "done" /\ units[u].ran

\* C27: the goroutine of a channel handler always ends, whether or not
\* anybody receives from the channel; a value the channel had no room for is
\* dropped for that handler; and a Close that was called returns.
C27_ChannelSendNeverWaits ==
    /\ <>[](\A u \in DOMAIN units : units[u].pc = "done")
    /\ [](\A u \in DOMAIN units :
            (units[u].pc = "done" /\ IsChan(units[u].handler)) =>
              /\ units[u].result \in {"sent", "dropped"}
              /\ metas[units[u].handler].queued
                   <= metas[units[u].handler].capacity)
    /\ (closes # <<>>) ~> (closes # <<>> /\ closes[1].pc = "returned")

\* an event was dropped for a channel nobody receives from, its goroutine has
\* ended, and a Close called after the event arrived has returned
C27_Witness ==
    \E u \in DOMAIN units :
      /\ IsChan(units[u].handler)
      /\ units[u].pc = "done" /\ units[u].result = "dropped"
      /\ closes # <<>> /\ closes[1].pc = "returned"
      /\ u \in closes[1].before

\* the serials of the global middlewares registered for type t
SerialsFor(t) ==
    {Lookup(globalMiddlewares, t)[k].serial :
       k \in DOMAIN Lookup(globalMiddlewares, t)}

\* C28 (as claimed): every global middleware registered for the type of the
\* situational event is invoked for a situational event that is dispatched,
\* and handlers are started for the situational event only when all of them
\* were invoked.
C28_SituationalPassesGlobalMiddlewares ==
    \A i \in DOMAIN calls :
      (calls[i].specific \in SituationalTypes
         /\ Started(i, calls[i].specific) # {}) =>
        SerialsFor(calls[i].specific) \subseteq Range(calls[i].invoked)

\* C29 (as claimed): when a Ready has been processed, a guild it does not
\* announce is in neither set of the tracker, and a GuildCreate that follows
\* the Ready for such a guild yields GuildJoin.
C29_ReadyResetsTracker ==
    /\ \A i \in DOMAIN calls :
         (i = Len(calls) /\ calls[i].et = "Ready" /\ calls[i].pc = "done") =>
           \A g \in GuildIDs \ IDs(calls[i].guilds) :
             g \notin unreadyGuilds /\ g \notin unavailableGuilds
    /\ \A j \in DOMAIN calls :
         (j > 1 /\ calls[j].et = "GuildCreate" /\ calls[j].specific # "none"
            /\ calls[j - 1].et = "Ready"
            /\ calls[j].guild \notin IDs(calls[j - 1].guilds)) =>
           calls[j].specific = "GuildJoin"

\* whether the goroutine u ended in its middleware chain
StoppedInChain(u) ==
    units[u].result \in {Filtered, "error", "panic"} /\ ~units[u].ran

\* C30: the per-handler middlewares of a handler are invoked one after the
\* other in the order of registration; once one has returned Filtered or
\* another error, or has panicked, no further middleware of the handler and not
\* the handler is invoked for the event, and ErrorHandler has been called once
\* for the error and not for Filtered.
C30_HandlerChainInOrderAndStops ==
    /\ \A u \in DOMAIN units :
         /\ units[u].chain = [k \in 1..Len(units[u].chain) |-> k - 1]
         /\ Len(units[u].chain) <= metas[units[u].handler].middlewares
         /\ units[u].ran =>
              Len(units[u].chain) = metas[units[u].handler].middlewares
         /\ StoppedInChain(u) => units[u].pc = "done"
    /\ \A i \in DOMAIN calls :
         calls[i].errors =
           Cardinality({u \in UnitsOf(i) :
                          StoppedInChain(u) /\ units[u].result = "error"})

\* a handler with two middlewares was not invoked: its first middleware
\* passed and its second returned an error, and of another event its first
\* middleware returned Filtered
C30_Witness ==
    \E u, v \in DOMAIN units :
      /\ units[u].handler = units[v].handler
      /\ StoppedInChain(u) /\ units[u].result = "error"
      /\ units[u].chain = <<0, 1>>
      /\ calls[units[u].call].errors = 1
      /\ StoppedInChain(v) /\ units[v].result = Filtered
      /\ units[v].chain = <<0>>
      /\ metas[units[v].handler].middlewares = 2
      /\ calls[units[v].call].errors = 0

\* C31 (as claimed): the tracker sees the guild events in the order in which
\* the loop of Open received them.  For the first two events of a loop: a
\* GuildCreate of G received after a Ready that announces G yields GuildReady,
\* and one received after a GuildDelete of G with unavailable set yields
\* GuildAvailable.
C31_TrackedInArrivalOrder ==
    \A l \in DOMAIN loops :
      LET mine == CallsOf(l)
      IN \A i, j \in mine :
           (/\ \A k \in mine : i <= k
            /\ j > i /\ \A k \in mine : k <= i \/ j <= k
            /\ calls[j].et = "GuildCreate"
            /\ calls[j].specific # "none") =>
             /\ (calls[i].et = "Ready"
                   /\ calls[j].guild \in IDs(calls[i].guilds)) =>
                  calls[j].specific = "GuildReady"
             /\ (calls[i].et = "GuildDelete" /\ calls[i].unavailable
                   /\ calls[j].guild = calls[i].guild) =>
                  calls[j].specific = "GuildAvailable"

\* the situational events of the GuildCreate calls i and j
Pair(i, j) == {calls[i].specific, calls[j].specific}

\* C32 (as claimed): every raw GuildCreate or GuildDelete that has passed the
\* tracker has one situational event of its kind, and of two GuildCreate
\* events of a guild that were dispatched together, one yields GuildReady and
\* the other GuildJoin when the guild was announced by a Ready before, and one
\* yields GuildAvailable and the other GuildJoin when it was unavailable.
C32_TransitionsAtomic ==
    /\ \A i \in DOMAIN calls :
         calls[i].pc \notin {"capture", "mw", "track"} =>
           /\ calls[i].et = "GuildCreate" =>
                calls[i].specific \in GuildCreateTypes
           /\ calls[i].et = "GuildDelete" =>
                calls[i].specific \in GuildDeleteTypes
    /\ \A i, j \in Creates :
         (/\ i < j /\ calls[i].guild = calls[j].guild
          /\ calls[i].specific # "none" /\ calls[j].specific # "none") =>
           LET before == Replay(Len(calls) - Cardinality(Creates))
               g == calls[i].guild
           IN /\ g \in before.unready =>
                   Pair(i, j) = {"GuildReady", "GuildJoin"}
              /\ (g \notin before.unready /\ g \in before.unavailable) =>
                   Pair(i, j) = {"GuildAvailable", "GuildJoin"}

\* C33 (as claimed): a nil error returned by a global middleware or by a
\* per-handler middleware is success: no panic leaves Call, and no handler
\* goroutine ends in its middleware chain on a nil result.
C33_NilResultIsSuccess ==
    /\ \A i \in DOMAIN calls : calls[i].pc # "panicked"
    /\ \A u \in DOMAIN units :
         (units[u].pc = "done" /\ units[u].result = "nil") => units[u].ran

CachedBefore(i, g) ==
    \E j \in 1..(i - 1) :
      /\ calls[j].et = "GuildCreate" /\ calls[j].guild = g
      /\ \A k \in (j + 1)..(i - 1) :
           ~(calls[k].et = "GuildDelete" /\ calls[k].guild = g)

C36_CloseReturns ==
    (\E k \in DOMAIN closes : closes[k].pc = "wait")
      ~> (\A k \in DOMAIN closes : closes[k].pc = "returned")

\* the calls of TryAddHandler and TryAddHandlerOnce, and of TryAddMiddleware,
\* that returned nil
AddedHandlers ==
    {k \in DOMAIN attempts :
       attempts[k].op # "TryAddMiddleware" /\ attempts[k].result = "ok"}

AddedMiddlewares ==
    {k \in DOMAIN attempts :
       attempts[k].op = "TryAddMiddleware" /\ attempts[k].result = "ok"}

\* the entries of a table: a Go map of slices
Entries(table) ==
    UNION {{<<t, n>> : n \in DOMAIN table[t]} : t \in DOMAIN table}

\* C37: only the registration calls that returned nil have changed the
\* handler table, the global middleware table and the serial counter, and no
\* handler goroutine runs for a handler whose registration returned an error.
C37_FailedRegistrationChangesNothing ==
    /\ Len(metas) = Cardinality(AddedHandlers)
    /\ Cardinality(Entries(handlers)) <= Cardinality(AddedHandlers)
    /\ calls = <<>> =>
         Cardinality(Entries(handlers)) = Cardinality(AddedHandlers)
    /\ currentSerial = Cardinality(AddedMiddlewares)
    /\ Cardinality(Entries(globalMiddlewares)) = Cardinality(AddedMiddlewares)
    /\ AddedHandlers = {} => units = <<>>

\* TryAddHandler returned ErrInvalidMiddleware for a valid handler of
\* MessageCreate with an invalid middleware, and a MessageCreate event was
\* dispatched after it
C37_Witness ==
    \E k \in DOMAIN attempts :
      /\ attempts[k].op = "TryAddHandler"
      /\ attempts[k].result = ErrInvalidMiddleware
      /\ AddHandlerResult(attempts[k].value, <<>>) = "ok"
      /\ HandlerEventType(attempts[k].value) = "MessageCreate"
      /\ \E i \in DOMAIN calls : calls[i].pc = "done"

\* ------------------------------------------- the State and its gateways
\* the number of goroutines that enter a method of the State
ShardingProcs == 3

\* a goroutine that a gateway started with s.onShardingRequired, or one of the
\* user that called s.Pause()
NewProc(kind) ==
    [kind |-> kind, pc |-> IF kind = "onShardingRequired" THEN "cas"
                                                          ELSE "rlock"]

\* a gateway reports that sharding is required, or the user calls Pause
Enter(kind) ==
    /\ Len(manager.procs) < ShardingProcs
    /\ manager' = [manager EXCEPT !.procs = Append(@, NewProc(kind))]
    /\ UNCHANGED <<regVars, calls, units, bases, guildVars, attempts,
                   handlerWG, lifeVars, store>>

\* if atomic.CompareAndSwapUint32(s.rescaleExec, 0, 1) { ... }
CompareAndSwap(p) ==
    /\ p \in DOMAIN manager.procs
    /\ manager.procs[p].pc = "cas"
    /\ manager' =
         IF manager.rescaleExec = 0
           THEN [manager EXCEPT !.rescaleExec = 1, !.procs[p].pc = "lock"]
           ELSE [manager EXCEPT !.procs[p].pc = "returned"]
    /\ UNCHANGED <<regVars, calls, units, bases, guildVars, attempts,
                   handlerWG, lifeVars, store>>

\* s.mutex.Lock(): waits until no goroutine holds the mutex
StateLock(p) ==
    /\ p \in DOMAIN manager.procs
    /\ manager.procs[p].pc = "lock"
    /\ manager.writer = 0 /\ manager.readers = {}
    /\ manager' = [manager EXCEPT !.writer = p, !.procs[p].pc = "Close"]
    /\ UNCHANGED <<regVars, calls, units, bases, guildVars, attempts,
                   handlerWG, lifeVars, store>>

\* s.Close(ctx): _ = s.Handler.Close(ctx), which returns when ctx has expired
\* at the latest, and then the call of s.ApplyGatewaysError
StateClose(p) ==
    /\ p \in DOMAIN manager.procs
    /\ manager.procs[p].pc = "Close"
    /\ manager' = [manager EXCEPT !.procs[p].pc = "rlock"]
    /\ UNCHANGED <<regVars, calls, units, bases, guildVars, attempts,
                   handlerWG, lifeVars, store>>

\* the goroutines that are in s.mutex.Lock()
LockWaiting == {q \in DOMAIN manager.procs : manager.procs[q].pc = "lock"}

\* s.mutex.RLock() of ApplyGatewaysError: waits while a goroutine holds the
\* write lock, whichever goroutine that is, or waits for it
StateRLock(p) ==
    /\ p \in DOMAIN manager.procs
    /\ manager.procs[p].pc = "rlock"
    /\ manager.writer = 0 /\ LockWaiting = {}
    /\ manager' = [manager EXCEPT !.readers = @ \cup {p},
                                  !.procs[p].pc = "apply"]
    /\ UNCHANGED <<regVars, calls, units, bases, guildVars, attempts,
                   handlerWG, lifeVars, store>>

\* ApplyGatewaysError applies f to the gateways and returns: the deferred
\* s.mutex.RUnlock(); in onShardingRequired the rescale follows
StateRUnlock(p) ==
    /\ p \in DOMAIN manager.procs
    /\ manager.procs[p].pc = "apply"
    /\ manager' =
         [manager EXCEPT !.readers = @ \ {p},
                         !.procs[p].pc =
                           IF manager.procs[p].kind = "onShardingRequired"
                             THEN "rescale" ELSE "returned"]
    /\ UNCHANGED <<regVars, calls, units, bases, guildVars, attempts,
                   handlerWG, lifeVars, store>>

\* *s.rescaleExec = 0, s.rescale(update), whose s.Open is another call of
\* ApplyGatewaysError, and the deferred s.mutex.Unlock()
Rescale(p) ==
    /\ p \in DOMAIN manager.procs
    /\ manager.procs[p].pc = "rescale"
    /\ manager.readers = {}
    /\ manager' = [manager EXCEPT !.rescaleExec = 0, !.writer = 0,
                                  !.procs[p].pc = "returned"]
    /\ UNCHANGED <<regVars, calls, units, bases, guildVars, attempts,
                   handlerWG, lifeVars, store>>

\* the steps of the State that are ever enabled: no goroutine comes to
\* StateRUnlock as the caller of onShardingRequired, so Rescale is not listed
NextSharding ==
    \/ \E kind \in {"onShardingRequired", "Pause"} : Enter(kind)
    \/ \E p \in 1..ShardingProcs : CompareAndSwap(p)
    \/ \E p \in 1..ShardingProcs : StateLock(p)
    \/ \E p \in 1..ShardingProcs : StateClose(p)
    \/ \E p \in 1..ShardingProcs : StateRLock(p)
    \/ \E p \in 1..ShardingProcs : StateRUnlock(p)

\* every goroutine that can take a step takes it in the end; when a gateway
\* reports or the user calls is not up to the program
SpecSharding ==
    /\ Init
    /\ [][NextSharding]_vars
    /\ WF_vars(\E p \in 1..ShardingProcs : CompareAndSwap(p))
    /\ WF_vars(\E p \in 1..ShardingProcs : StateLock(p))
    /\ WF_vars(\E p \in 1..ShardingProcs : StateClose(p))
    /\ WF_vars(\E p \in 1..ShardingProcs : StateRLock(p))
    /\ WF_vars(\E p \in 1..ShardingProcs : StateRUnlock(p))
    /\ WF_vars(\E p \in 1..ShardingProcs : Rescale(p))

\* the goroutines that run onShardingRequired
Sharding ==
    {p \in DOMAIN manager.procs : manager.procs[p].kind = "onShardingRequired"}

\* C38 (as claimed): every call of onShardingRequired returns in the end: the
\* closing of the gateways inside it completes, and it does not wait for the
\* mutex of the State forever.
C38_ShardingRequiredReturns ==
    (Sharding # {}) ~> (\A p \in Sharding : manager.procs[p].pc = "returned")

\* --------------------------------------- concurrent calls of TryAddMiddleware
\* the number of calls of TryAddMiddleware
SerialAdds == 3

\* the calls of TryAddMiddleware that hold h.mutex
MutexHolders ==
    {k \in DOMAIN attempts : attempts[k].pc \in {"append", "increment"}}

\* a plausible slip of TryAddMiddleware: the table is changed without the lock
MutexFreeUnlocked == TRUE

\* whether h.mutex.Lock() returns: no other goroutine holds the mutex
MutexFree == MutexHolders = {}

\* a goroutine calls TryAddMiddleware with a valid middleware func for type
\* t: the checks of the signature, up to h.mutex.Lock(); serial and locked,
\* the position among the calls that took the lock, are history
BeginTryAddMiddleware(t) ==
    /\ attempts' = Append(attempts,
                      [op |-> "TryAddMiddleware", type |-> t, pc |-> "Lock",
                       serial |-> -1, locked |-> 0, result |-> "waiting"])
    /\ UNCHANGED <<regVars, calls, units, bases, guildVars, handlerWG,
                   lifeVars, store, manager>>

\* h.mutex.Lock() returns
LockTable(k) ==
    /\ k \in DOMAIN attempts
    /\ attempts[k].pc = "Lock"
    /\ MutexFree
    /\ attempts' =
         [attempts EXCEPT
            ![k].pc = "append",
            ![k].locked =
              1 + Cardinality({j \in DOMAIN attempts : attempts[j].locked > 0})]
    /\ UNCHANGED <<regVars, calls, units, bases, guildVars, handlerWG,
                   lifeVars, store, manager>>

\* h.globalMiddlewares[et] = append(h.globalMiddlewares[et],
\* globalMiddleware{middleware: fv, serial: h.currentSerial})
AppendMiddleware(k) ==
    /\ k \in DOMAIN attempts
    /\ attempts[k].pc = "append"
    /\ globalMiddlewares' =
         Store(globalMiddlewares, attempts[k].type,
               Append(Lookup(globalMiddlewares, attempts[k].type),
                      [serial |-> currentSerial]))
    /\ attempts' = [attempts EXCEPT ![k].pc = "increment",
                                    ![k].serial = currentSerial]
    /\ UNCHANGED <<handlers, metas, currentSerial, calls, units, bases,
                   guildVars, handlerWG, lifeVars, store, manager>>

\* h.currentSerial++, return nil and the deferred h.mutex.Unlock()
IncrementSerial(k) ==
    /\ k \in DOMAIN attempts
    /\ attempts[k].pc = "increment"
    /\ currentSerial' = currentSerial + 1
    /\ attempts' = [attempts EXCEPT ![k].pc = "returned", ![k].result = "ok"]
    /\ UNCHANGED <<handlers, metas, globalMiddlewares, calls, units, bases,
                   guildVars, handlerWG, lifeVars, store, manager>>

\* Goroutines call TryAddMiddleware with valid middlewares for interface{}
\* and MessageCreate at any time; each runs at its own speed.
NextSerial ==
    \/ \E t \in {interfaceType, "MessageCreate"} :
         Len(attempts) < SerialAdds /\ BeginTryAddMiddleware(t)
    \/ \E k \in 1..SerialAdds : LockTable(k)
    \/ \E k \in 1..SerialAdds : AppendMiddleware(k)
    \/ \E k \in 1..SerialAdds : IncrementSerial(k)

SpecSerial == Init /\ [][NextSerial]_vars

\* the calls of TryAddMiddleware that have appended their middleware
Appended == {k \in DOMAIN attempts : attempts[k].serial >= 0}

\* the serials of a list of global middlewares, in list order
SerialsOf(list) == [n \in DOMAIN list |-> list[n].serial]

\* C39: at every point of every interleaving of concurrent calls of
\* TryAddMiddleware, the registered global middlewares have pairwise distinct
\* serials, a middleware has a smaller serial than another exactly when its
\* registration took the write lock earlier, and the serials of every list of
\* the table ascend strictly in list order.
C39_SerialsFollowLockOrder ==
    /\ \A k, j \in Appended :
         k # j => attempts[k].serial # attempts[j].serial
    /\ \A k, j \in Appended :
         attempts[k].locked < attempts[j].locked
           <=> attempts[k].serial < attempts[j].serial
    /\ UNION {SerialsFor(t) : t \in DOMAIN globalMiddlewares}
         = {attempts[k].serial : k \in Appended}
    /\ Cardinality(Entries(globalMiddlewares)) = Cardinality(Appended)
    /\ \A t \in DOMAIN globalMiddlewares :
         IsAscending(SerialsOf(globalMiddlewares[t]))
    /\ currentSerial =
         Cardinality({k \in DOMAIN attempts : attempts[k].pc = "returned"})

\* three concurrent registrations have returned, two of them for the same
\* type, and a call that began later took the lock earlier
C39_Witness ==
    /\ Cardinality(Appended) >= 3
    /\ \A k \in Appended : attempts[k].result = "ok"
    /\ \E k, j \in Appended :
         /\ k < j /\ attempts[k].locked > attempts[j].locked
         /\ attempts[k].type = attempts[j].type
    /\ \E k, j \in Appended : attempts[k].type # attempts[j].type

====
